---------------------------- MODULE Spec2Model ----------------------------
(***************************************************************************)
(* A model of the data-processing core of the Analytics Platform           *)
(* (src/utils/data_processor.py): the missing-value imputer, the row       *)
(* filter, the column synthesizer, the column dropper and the missing-     *)
(* value summary, over a small model of the pandas DataFrame they work on, *)
(* and of the pages of src/app.py that keep the dataset in the session.    *)
(*                                                                         *)
(* A cell value is a triple whose first component is its kind:             *)
(*   <<"null", 0, 0>>   NaN / None                                         *)
(*   <<"num", n, d>>    the number n/d in lowest terms, d > 0              *)
(*   <<"str", cs, 0>>   the text cs, a sequence of one-character strings   *)
(*   <<"bool", b, 0>>   a boolean (b is 0 or 1), result of a comparison    *)
(* A DataFrame is a record [columns, dtypes, index, data]: the ordered     *)
(* column labels, the dtype of each column, the row labels, and for each   *)
(* column the sequence of its cells.                                       *)
(***************************************************************************)
EXTENDS Integers, Sequences, FiniteSets, TLC

VARIABLES
    pc,               \* "ready" | "called" | "again"
    op,               \* the DataProcessor method of the last call, or "none"
    df,               \* the caller's DataFrame object (its contents now)
    df0,              \* the contents of the caller's DataFrame when the call began
    fill_config,      \* argument of handle_missing_values
    filters,          \* argument of filter_data
    calc,             \* arguments of add_calculated_column
    columns_to_drop,  \* argument of drop_columns
    out,              \* what the call gave back
    out2,             \* what the second call of Reapply gave back
    page,             \* the page selected in the sidebar (app.py line 88)
    uploaded_file,    \* what st.file_uploader holds (app.py line 97), or "None"
    chart,            \* the last call of Visualization.create_chart and its outcome
    session_state,    \* st.session_state: data, cleaned_data, data_cleaned
    last_loaded       \* the file of the last successful load_file, or "None"

\* The variables of the DataProcessor calls and those of the pages of app.py.
processor == <<pc, op, df, df0, fill_config, filters, calc, columns_to_drop, out, out2>>
pages == <<page, uploaded_file, session_state, last_loaded, chart>>

vars == <<pc, op, df, df0, fill_config, filters, calc, columns_to_drop, out, out2,
          page, uploaded_file, session_state, last_loaded, chart>>

\* The largest number of messages of the chat history and of components of
\* the dashboard the model lets the session grow to.
MaxChat == 4
MaxComponents == 3

\* The largest number of rows of a dataset the model starts from.
MaxRows == 3

---------------------------------------------------------------------------
(* Cell values *)

Null == <<"null", 0, 0>>

Abs(i) == IF i < 0 THEN -i ELSE i

RECURSIVE GCD(_, _)
GCD(a, b) == IF b = 0 THEN a ELSE GCD(b, a % b)

\* The number n/d (d # 0) in lowest terms.
Num(n, d) ==
    LET g == GCD(Abs(n), Abs(d))
        s == IF d < 0 THEN -1 ELSE 1
    IN  <<"num", (s * n) \div g, (s * d) \div g>>

Whole(n) == <<"num", n, 1>>
Str(cs) == <<"str", cs, 0>>

IsNull(v) == v[1] = "null"
IsNum(v) == v[1] = "num"
IsStr(v) == v[1] = "str"

NumAdd(a, b) == Num(a[2] * b[3] + b[2] * a[3], a[3] * b[3])
NumMul(a, b) == Num(a[2] * b[2], a[3] * b[3])
NumLess(a, b) == a[2] * b[3] < b[2] * a[3]
NumLeq(a, b) == a[2] * b[3] <= b[2] * a[3]

\* The characters of the model in code-point order, so that text compares as
\* Python compares str.
Alphabet == <<" ", "'", "(", ")", "*", "+", ",", "-", ".", "/",
              "0", "1", "2", "3", "4", "5", "6", "7", "8", "9",
              "A", "B", "[", "]", "_",
              "a", "b", "c", "d", "e", "f", "h", "i", "l", "n", "o", "p", "s", "t",
              "w", "x", "y", "z">>

Code(c) == CHOOSE i \in 1..Len(Alphabet) : Alphabet[i] = c

Digits == {"0", "1", "2", "3", "4", "5", "6", "7", "8", "9"}

DigitVal(c) == Code(c) - Code("0")

RECURSIVE TextLess(_, _)
TextLess(a, b) ==
    IF b = <<>> THEN FALSE
    ELSE IF a = <<>> THEN TRUE
    ELSE IF Head(a) # Head(b) THEN Code(Head(a)) < Code(Head(b))
    ELSE TextLess(Tail(a), Tail(b))

\* v < w for two non-null values of the same kind.
ValLess(v, w) == IF IsNum(v) THEN NumLess(v, w) ELSE TextLess(v[2], w[2])

---------------------------------------------------------------------------
(* Sequences *)

\* The indices of the TRUE entries of a boolean sequence, ascending.
RECURSIVE TrueIdx(_, _)
TrueIdx(keep, i) ==
    IF i > Len(keep) THEN <<>>
    ELSE IF keep[i] THEN <<i>> \o TrueIdx(keep, i + 1)
    ELSE TrueIdx(keep, i + 1)

\* seq[mask]: the entries of seq whose mask entry is TRUE, in order.
Take(seq, keep) ==
    LET idx == TrueIdx(keep, 1)
    IN  [k \in 1..Len(idx) |-> seq[idx[k]]]

Range(seq) == {seq[i] : i \in 1..Len(seq)}

\* The non-null entries of a column, in order (Series.dropna()).
NonNull(vals) == Take(vals, [i \in 1..Len(vals) |-> ~IsNull(vals[i])])

CountNull(vals) == Cardinality({i \in 1..Len(vals) : IsNull(vals[i])})

RECURSIVE NumSum(_)
NumSum(vals) == IF vals = <<>> THEN Whole(0) ELSE NumAdd(Head(vals), NumSum(Tail(vals)))

\* The entries of a sequence of same-kind values in ascending order.
Sorted(vals) ==
    LET n == Len(vals)
        \* the position of entry i in the sorted order (stable)
        rank(i) == Cardinality({j \in 1..n : ValLess(vals[j], vals[i])
                                             \/ (~ValLess(vals[i], vals[j]) /\ j < i)}) + 1
    IN  [k \in 1..n |-> vals[CHOOSE i \in 1..n : rank(i) = k]]

---------------------------------------------------------------------------
(* DataFrame *)

is_numeric_dtype(dtype) == dtype \in {"int64", "float64", "bool"}

HasColumn(d, c) == c \in Range(d.columns)

NRows(d) == Len(d.index)

\* d[mask]: the rows of d whose mask entry is TRUE; labels and dtypes kept.
SelectRows(d, keep) ==
    [d EXCEPT !.index = Take(d.index, keep),
              !.data = [c \in DOMAIN d.data |-> Take(d.data[c], keep)]]

\* fillna(value, limit=1): only the first null is replaced.
fillna_limit1(vals, value) ==
    IF IsNull(value) THEN vals
    ELSE [i \in 1..Len(vals) |->
            IF IsNull(vals[i]) /\ \A j \in 1..(i - 1) : ~IsNull(vals[j])
                THEN value ELSE vals[i]]

\* Series.fillna(value): every null replaced by value; fillna(NaN) changes nothing.
fillna(vals, value) ==
    IF IsNull(value) THEN vals
    ELSE [i \in 1..Len(vals) |-> IF IsNull(vals[i]) THEN value ELSE vals[i]]

\* Series.mean(): the mean of the non-null values, NaN when there is none.
mean(vals) ==
    LET nn == NonNull(vals)
    IN  IF nn = <<>> THEN Null
        ELSE LET s == NumSum(nn) IN Num(s[2], s[3] * Len(nn))

\* Series.median(): the middle of the sorted non-null values (the mean of the
\* two middle ones when their count is even), NaN when there is none.
median(vals) ==
    LET nn == Sorted(NonNull(vals))
        n == Len(nn)
    IN  IF n = 0 THEN Null
        ELSE IF n % 2 = 1 THEN nn[(n + 1) \div 2]
        ELSE NumMul(NumAdd(nn[n \div 2], nn[n \div 2 + 1]), Num(1, 2))

\* Series.mode(): the most frequent non-null values, sorted ascending; empty
\* when the column has no non-null value.
mode(vals) ==
    LET nn == NonNull(vals)
        count(v) == Cardinality({i \in 1..Len(nn) : nn[i] = v})
        top == {v \in Range(nn) : \A w \in Range(nn) : count(w) <= count(v)}
        firsts == [i \in 1..Len(nn) |-> nn[i] \in top /\ \A j \in 1..(i - 1) : nn[j] # nn[i]]
    IN  Sorted(Take(nn, firsts))

\* dropna() without subset: the rows with a null in any column are removed.
dropna_any(d, column) ==
    SelectRows(d, [i \in 1..NRows(d) |->
                      \A c \in DOMAIN d.data : ~IsNull(d.data[c][i])])

\* DataFrame.dropna(subset=[column]): the rows whose cell in column is not null.
dropna(d, column) ==
    SelectRows(d, [i \in 1..NRows(d) |-> ~IsNull(d.data[column][i])])

---------------------------------------------------------------------------
(* Inside a method the model keeps three things: the caller's DataFrame      *)
(* object, the method's working DataFrame, and whether the two are the same  *)
(* object (alias), so that an in-place assignment to the working object is   *)
(* seen by the caller exactly when no copy was taken.                        *)

\* local = df.copy(): a new object with the caller's contents.
copy(d) == [caller |-> d, work |-> d, alias |-> FALSE]

\* local[column] = vals: in-place assignment to the working object.
SetColumn(st, column, vals) ==
    [st EXCEPT !.work.data[column] = vals,
               !.caller = IF st.alias THEN [st.caller EXCEPT !.data[column] = vals]
                          ELSE st.caller]

\* local = <a new DataFrame>: the name is bound to another object.
Rebind(st, d) == [st EXCEPT !.work = d, !.alias = FALSE]

\* What a call gives back: the caller's object after the call (df), the value
\* returned (ret), the error description returned with it ("None" when there is
\* none), the exception that left the method ("none" when it returned), and the
\* failures reported on the page with st.error (the columns they name).
Returned(st, error, reported) ==
    [df |-> st.caller, ret |-> st.work, error |-> error, raised |-> "none",
     reported |-> reported]

Raised(st, exc) ==
    [df |-> st.caller, ret |-> st.caller, error |-> "None", raised |-> exc,
     reported |-> <<>>]

---------------------------------------------------------------------------
(* DataProcessor.handle_missing_values *)

\* float(text) for the texts of the model: a run of digits is its decimal
\* value, "nan" is NaN, anything else is a ValueError.
RECURSIVE DecimalValue(_, _)
DecimalValue(cs, acc) ==
    IF cs = <<>> THEN acc ELSE DecimalValue(Tail(cs), 10 * acc + DigitVal(Head(cs)))

float(cs) ==
    IF cs # <<>> /\ \A i \in 1..Len(cs) : cs[i] \in Digits
        THEN [ok |-> TRUE, value |-> Whole(DecimalValue(cs, 0))]
    ELSE IF cs = <<"n", "a", "n">> THEN [ok |-> TRUE, value |-> Null]
    ELSE [ok |-> FALSE, value |-> Null]

\* The literal used as it is, whatever the column's type.
custom_fill_value_uncoerced(dtype, custom_value) == Str(custom_value)

\* The value a custom entry fills with (lines 168-175): for a numeric column
\* the literal coerced to the column's type, 0 when the coercion fails; for
\* any other column the literal itself.
custom_fill_value(dtype, custom_value) ==
    IF is_numeric_dtype(dtype)
        THEN LET f == float(custom_value)
             IN  IF dtype = "int64"
                     \* int(float(v)): int(nan) is a ValueError too
                     THEN IF f.ok /\ ~IsNull(f.value) THEN f.value ELSE Whole(0)
                     ELSE IF f.ok THEN f.value ELSE Whole(0)
    ELSE Str(custom_value)

\* The mean assigned to every cell of the column, null or not.
fill_mean_every_cell(st, column) ==
    IF is_numeric_dtype(st.work.dtypes[column])
        THEN LET mean_val == mean(st.work.data[column])
             IN  SetColumn(st, column,
                     [i \in 1..Len(st.work.data[column]) |->
                         IF IsNull(mean_val) THEN st.work.data[column][i] ELSE mean_val])
    ELSE st

\* The mean taken from the caller's df instead of df_cleaned.
fill_mean_of_input(st, column) ==
    IF is_numeric_dtype(st.work.dtypes[column])
        THEN LET mean_val == mean(st.caller.data[column])
             IN  SetColumn(st, column, fillna(st.work.data[column], mean_val))
    ELSE st

fill_mean(st, column) ==
    IF is_numeric_dtype(st.work.dtypes[column])
        THEN LET mean_val == mean(st.work.data[column])
             IN  SetColumn(st, column, fillna(st.work.data[column], mean_val))
    ELSE st

\* The filled column computed and not assigned back.
fill_median_unassigned(st, column) == st

fill_median(st, column) ==
    IF is_numeric_dtype(st.work.dtypes[column])
        THEN LET median_val == median(st.work.data[column])
             IN  SetColumn(st, column, fillna(st.work.data[column], median_val))
    ELSE st

fill_mode(st, column) ==
    LET mode_values == mode(st.work.data[column])
    IN  IF mode_values # <<>>
            THEN SetColumn(st, column, fillna(st.work.data[column], mode_values[1]))
        ELSE st

\* The value assigned to every cell of the column, not only to its nulls.
fill_custom_overwrites(st, column, custom_value) ==
    IF custom_value # <<>>
        THEN SetColumn(st, column,
                 [i \in 1..Len(st.work.data[column]) |->
                     custom_fill_value(st.work.dtypes[column], custom_value)])
    ELSE st

fill_custom(st, column, custom_value) ==
    IF custom_value # <<>>
        THEN SetColumn(st, column,
                 fillna(st.work.data[column],
                        custom_fill_value(st.work.dtypes[column], custom_value)))
    ELSE st

fill_drop(st, column) == Rebind(st, dropna(st.work, column))

\* One pass of the loop over fill_config.items().
fill_entry(st, entry) ==
    IF ~HasColumn(st.work, entry.column) THEN st
    ELSE CASE entry.type = "mean" -> fill_mean(st, entry.column)
           [] entry.type = "median" -> fill_median(st, entry.column)
           [] entry.type = "mode" -> fill_mode(st, entry.column)
           [] entry.type = "custom" -> fill_custom(st, entry.column, entry.value)
           [] entry.type = "drop" -> fill_drop(st, entry.column)
           [] OTHER -> st

RECURSIVE fill_loop(_, _)
fill_loop(st, entries) ==
    IF entries = <<>> THEN st
    ELSE fill_loop(fill_entry(st, Head(entries)), Tail(entries))

handle_missing_values(d, config) ==
    Returned(fill_loop(copy(d), config), "None", <<>>)

---------------------------------------------------------------------------
(* DataProcessor.filter_data *)

\* A filter value is a cell value (a number or a text) or a list of them.
List(vs) == <<"list", vs, 0>>
IsList(v) == v[1] = "list"

\* str(n) for a whole number n >= 0.
RECURSIVE DecimalText(_)
DecimalText(n) ==
    IF n < 10 THEN <<Alphabet[Code("0") + n]>>
    ELSE DecimalText(n \div 10) \o <<Alphabet[Code("0") + (n % 10)]>>

\* str() of a cell of a column as Series.astype(str) gives it: a float prints
\* with its fraction (1.0, 2.5), NaN prints "nan", text is itself. Numbers
\* are whole or halves and not negative, as the model's datasets hold them.
astype_str(v) ==
    IF IsNull(v) THEN <<"n", "a", "n">>
    ELSE IF IsStr(v) THEN v[2]
    ELSE DecimalText(v[2] \div v[3]) \o <<".">> \o (IF v[3] = 1 THEN <<"0">> ELSE <<"5">>)

\* str(value) of a filter value: a Python int prints without a fraction.
str(v) == IF IsStr(v) THEN v[2] ELSE DecimalText(v[2])

\* re.search(pat, text) for patterns of plain characters and ".", which stands
\* for any character.
MatchesAt(pat, text, k) ==
    /\ k + Len(pat) - 1 <= Len(text)
    /\ \A j \in 1..Len(pat) : pat[j] = "." \/ pat[j] = text[k + j - 1]

str_contains(text, pat) == \E k \in 1..(Len(text) + 1) : MatchesAt(pat, text, k)

\* cell == value, as pandas compares a cell to a scalar: a null equals nothing.
CellEquals(cell, value) == ~IsNull(cell) /\ cell[1] = value[1] /\ cell = value

\* cell <rel> value for an ordering rel: "T", "F", or "E" when Python cannot
\* order the two (TypeError); a null cell compares False.
CellOrder(cell, rel, value) ==
    IF IsNull(cell) THEN "F"
    ELSE IF cell[1] # value[1] THEN "E"
    ELSE LET holds == CASE rel = "gt" -> ValLess(value, cell)
                        [] rel = "lt" -> ValLess(cell, value)
                        [] rel = "ge" -> ~ValLess(cell, value)
                        [] rel = "le" -> ~ValLess(value, cell)
         IN  IF holds THEN "T" ELSE "F"

\* filtered_df[column] <rel> value: the boolean mask, or a TypeError. A numeric
\* column against a text is an invalid comparison whatever the column holds;
\* otherwise the comparison fails when some cell cannot be ordered with value.
OrderMask(d, column, rel, value) ==
    LET cells == d.data[column]
        each == [i \in 1..Len(cells) |-> CellOrder(cells[i], rel, value)]
    IN  IF (is_numeric_dtype(d.dtypes[column]) /\ IsStr(value))
           \/ \E i \in 1..Len(cells) : each[i] = "E"
            THEN [ok |-> FALSE, mask |-> <<>>]
        ELSE [ok |-> TRUE, mask |-> [i \in 1..Len(cells) |-> each[i] = "T"]]

\* The lower bound compared with > instead of >=.
between_mask_lower_exclusive(d, column, lo, hi) ==
    LET gt == OrderMask(d, column, "gt", lo)
        le == OrderMask(d, column, "le", hi)
    IN  IF gt.ok /\ le.ok
            THEN [ok |-> TRUE, mask |-> [i \in 1..NRows(d) |-> gt.mask[i] /\ le.mask[i]]]
        ELSE [ok |-> FALSE, mask |-> <<>>]

\* The bounds compared with > and < instead of >= and <=.
between_mask_exclusive(d, column, lo, hi) ==
    LET gt == OrderMask(d, column, "gt", lo)
        lt == OrderMask(d, column, "lt", hi)
    IN  IF gt.ok /\ lt.ok
            THEN [ok |-> TRUE, mask |-> [i \in 1..NRows(d) |-> gt.mask[i] /\ lt.mask[i]]]
        ELSE [ok |-> FALSE, mask |-> <<>>]

\* (filtered_df[column] >= lo) & (filtered_df[column] <= hi), line 106.
between_mask(d, column, lo, hi) ==
    LET ge == OrderMask(d, column, "ge", lo)
        le == OrderMask(d, column, "le", hi)
    IN  IF ge.ok /\ le.ok
            THEN [ok |-> TRUE, mask |-> [i \in 1..NRows(d) |-> ge.mask[i] /\ le.mask[i]]]
        ELSE [ok |-> FALSE, mask |-> <<>>]

\* The mask of one filter specification on the rows filtered so far (lines
\* 94-106): ok is FALSE when evaluating it raises, and applies is FALSE when
\* no branch of the if/elif chain selects rows.
filter_mask(d, config) ==
    LET cells == d.data[config.column]
        n == Len(cells)
        value == config.value
        all == [i \in 1..n |-> TRUE]
    IN  CASE config.operator = "equals" ->
                [ok |-> TRUE, applies |-> TRUE,
                 mask |-> [i \in 1..n |-> CellEquals(cells[i], value)]]
          [] config.operator = "not_equals" ->
                [ok |-> TRUE, applies |-> TRUE,
                 mask |-> [i \in 1..n |-> ~CellEquals(cells[i], value)]]
          [] config.operator = "contains" ->
                [ok |-> TRUE, applies |-> TRUE,
                 mask |-> [i \in 1..n |-> str_contains(astype_str(cells[i]), str(value))]]
          [] config.operator = "greater_than" ->
                LET m == OrderMask(d, config.column, "gt", value)
                IN  [ok |-> m.ok, applies |-> TRUE, mask |-> m.mask]
          [] config.operator = "less_than" ->
                LET m == OrderMask(d, config.column, "lt", value)
                IN  [ok |-> m.ok, applies |-> TRUE, mask |-> m.mask]
          [] config.operator = "between" ->
                IF IsList(value) /\ Len(value[2]) = 2
                    THEN LET m == between_mask(d, config.column, value[2][1], value[2][2])
                         IN  [ok |-> m.ok, applies |-> TRUE, mask |-> m.mask]
                ELSE [ok |-> TRUE, applies |-> FALSE, mask |-> all]
          [] OTHER -> [ok |-> TRUE, applies |-> FALSE, mask |-> all]

\* The mask taken from, and applied to, the caller's df instead of filtered_df.
filter_step_on_input(fs, config) ==
    IF ~HasColumn(fs.st.caller, config.column) THEN fs
    ELSE LET m == filter_mask(fs.st.caller, config)
         IN  IF ~m.ok THEN [fs EXCEPT !.reported = Append(@, config.column)]
             ELSE IF ~m.applies THEN fs
             ELSE [fs EXCEPT !.st = Rebind(fs.st, SelectRows(fs.st.caller, m.mask))]

\* A specification that raises leaves an all-False mask, which is applied.
filter_step_empties_on_error(fs, config) ==
    IF ~HasColumn(fs.st.caller, config.column) THEN fs
    ELSE LET m == filter_mask(fs.st.work, config)
             none == [i \in 1..NRows(fs.st.work) |-> FALSE]
         IN  IF ~m.ok THEN [fs EXCEPT !.reported = Append(@, config.column),
                                      !.st = Rebind(fs.st, SelectRows(fs.st.work, none))]
             ELSE IF ~m.applies THEN fs
             ELSE [fs EXCEPT !.st = Rebind(fs.st, SelectRows(fs.st.work, m.mask))]

\* The column looked up inside the try block: an absent column is a KeyError,
\* caught and reported.
filter_step_reports_absent(fs, config) ==
    IF ~HasColumn(fs.st.caller, config.column)
        THEN [fs EXCEPT !.reported = Append(@, config.column)]
    ELSE LET m == filter_mask(fs.st.work, config)
         IN  IF ~m.ok THEN [fs EXCEPT !.reported = Append(@, config.column)]
             ELSE IF ~m.applies THEN fs
             ELSE [fs EXCEPT !.st = Rebind(fs.st, SelectRows(fs.st.work, m.mask))]

\* A specification that selects no branch of the if/elif chain leaves an
\* all-False mask, which is applied.
filter_step_unapplied_empties(fs, config) ==
    IF ~HasColumn(fs.st.caller, config.column) THEN fs
    ELSE LET m == filter_mask(fs.st.work, config)
             none == [i \in 1..NRows(fs.st.work) |-> FALSE]
         IN  IF ~m.ok THEN [fs EXCEPT !.reported = Append(@, config.column)]
             ELSE IF ~m.applies
                 THEN [fs EXCEPT !.st = Rebind(fs.st, SelectRows(fs.st.work, none))]
             ELSE [fs EXCEPT !.st = Rebind(fs.st, SelectRows(fs.st.work, m.mask))]

\* One pass of the loop over filters: fs is the method's frame and the
\* failures it has reported so far.
filter_step(fs, config) ==
    IF ~HasColumn(fs.st.caller, config.column) THEN fs
    ELSE LET m == filter_mask(fs.st.work, config)
         IN  IF ~m.ok THEN [fs EXCEPT !.reported = Append(@, config.column)]
             ELSE IF ~m.applies THEN fs
             ELSE [fs EXCEPT !.st = Rebind(fs.st, SelectRows(fs.st.work, m.mask))]

\* The loop left after its first pass: only the first specification acts.
filter_loop_first_only(fs, configs) ==
    IF configs = <<>> THEN fs
    ELSE filter_step(fs, Head(configs))

RECURSIVE filter_loop(_, _)
filter_loop(fs, configs) ==
    IF configs = <<>> THEN fs
    ELSE filter_loop(filter_step(fs, Head(configs)), Tail(configs))

filter_data(d, configs) ==
    LET fs == filter_loop([st |-> copy(d), reported |-> <<>>], configs)
    IN  Returned(fs.st, "None", fs.reported)

---------------------------------------------------------------------------
(* DataProcessor.drop_columns *)

\* The DataFrame without the columns named in names.
WithoutColumns(d, names) ==
    LET keep == [k \in 1..Len(d.columns) |-> d.columns[k] \notin names]
        left == Range(Take(d.columns, keep))
    IN  [columns |-> Take(d.columns, keep),
         dtypes |-> [c \in left |-> d.dtypes[c]],
         index |-> d.index,
         data |-> [c \in left |-> d.data[c]]]

\* All the requested names, present or not.
existing_columns_unchecked(d, columns) == columns

\* [col for col in columns_to_drop if col in df_modified.columns]
existing_columns(d, columns) ==
    Take(columns, [k \in 1..Len(columns) |-> HasColumn(d, columns[k])])

\* DataFrame.drop(columns=labels) raises KeyError when a label is not a column.
drop_columns(d, columns) ==
    LET st == copy(d)
        existing == existing_columns(st.work, columns)
    IN  IF existing = <<>> THEN Returned(st, "None", <<>>)
        ELSE IF \E k \in 1..Len(existing) : ~HasColumn(st.work, existing[k])
            THEN Raised(st, "KeyError")
        ELSE Returned(Rebind(st, WithoutColumns(st.work, Range(existing))), "None", <<>>)

---------------------------------------------------------------------------
(* DataProcessor.add_calculated_column: the textual substitution *)

\* The text of a column label.
LabelText(name) ==
    CASE name = "x" -> <<"x">>
      [] name = "y" -> <<"y">>
      [] name = "s" -> <<"s">>
      [] name = "z" -> <<"z">>
      [] name = "c" -> <<"c">>
      [] name = "A2" -> <<"A", "2">>
      [] OTHER -> <<name>>

KnownLabels == {"x", "y", "s", "z", "c", "A2", "a", "b", "d", "e", "f", "h", "i", "l"}

\* The label a text spells; "?" stands for a text that is no label of the model.
LabelOf(text) ==
    IF \E name \in KnownLabels : LabelText(name) = text
        THEN CHOOSE name \in KnownLabels : LabelText(name) = text
    ELSE "?"

StartsWithAt(text, k, old) ==
    /\ k + Len(old) - 1 <= Len(text)
    /\ \A j \in 1..Len(old) : text[k + j - 1] = old[j]

\* text.replace(old, new): the occurrences of old replaced from the left,
\* without overlap.
RECURSIVE ReplaceFrom(_, _, _, _)
ReplaceFrom(text, k, old, new) ==
    LET found == {j \in k..Len(text) : StartsWithAt(text, j, old)}
    IN  IF found = {} THEN SubSeq(text, k, Len(text))
        ELSE LET m == CHOOSE j \in found : \A i \in found : j <= i
             IN  SubSeq(text, k, m - 1) \o new \o ReplaceFrom(text, m + Len(old), old, new)

replace(text, old, new) == ReplaceFrom(text, 1, old, new)

\* f"df_with_calc['{actual_col}']"
ColumnReference(actual_col) ==
    <<"d", "f", "_", "w", "i", "t", "h", "_", "c", "a", "l", "c", "[", "'">>
        \o LabelText(actual_col) \o <<"'", "]">>

\* The loop left after its first pass: only the first alias is replaced.
substitute_first_only(working_formula, refs) ==
    IF refs = <<>> THEN working_formula
    ELSE replace(working_formula, Head(refs).ref, ColumnReference(Head(refs).actual_col))

\* The loop over column_references.items() (lines 190-192).
RECURSIVE substitute(_, _)
substitute(working_formula, refs) ==
    IF refs = <<>> THEN working_formula
    ELSE CHOOSE result \in
            {substitute(replaced, rest) :
                replaced \in {replace(working_formula, Head(refs).ref,
                                      ColumnReference(Head(refs).actual_col))},
                rest \in {Tail(refs)}} : TRUE

---------------------------------------------------------------------------
(* eval(working_formula): tokens, syntax tree, evaluation.  The model reads  *)
(* the expressions of this grammar, which are the ones it draws formulas      *)
(* from (FormulaTexts):                                                       *)
(*   expr    ::= term (("+" | "-") term)*                                     *)
(*   term    ::= factor (("*" | "/") factor)*                                 *)
(*   factor  ::= atom trailer*                                                *)
(*   atom    ::= NAME | NUMBER | STRING | "(" expr ")"                        *)
(*   trailer ::= "[" expr "]" | "." NAME | "(" ")" | "(" expr ")"             *)
(* A token is <<kind, text>>.                                                 *)

NameStart == {"A", "B", "_", "a", "b", "c", "d", "e", "f", "h", "i", "l", "n", "o", "p",
              "s", "t", "w", "x", "y", "z"}
NameChars == NameStart \cup Digits
OpChars == {"(", ")", "*", "+", ",", "-", ".", "/", "[", "]"}

\* The end of the longest run of characters of set starting at k.
RECURSIVE RunEnd(_, _, _)
RunEnd(text, k, set) ==
    IF k <= Len(text) /\ text[k] \in set THEN RunEnd(text, k + 1, set) ELSE k

\* The position of the next quote at or after k, or 0.
RECURSIVE QuoteAt(_, _)
QuoteAt(text, k) ==
    IF k > Len(text) THEN 0
    ELSE IF text[k] = "'" THEN k
    ELSE QuoteAt(text, k + 1)

RECURSIVE Tokens(_, _)
Tokens(text, k) ==
    IF k > Len(text) THEN <<>>
    ELSE LET ch == text[k]
         IN  IF ch = " " THEN Tokens(text, k + 1)
             ELSE IF ch \in NameStart
                 THEN LET e == RunEnd(text, k, NameChars)
                      IN  <<<<"name", SubSeq(text, k, e - 1)>>>> \o Tokens(text, e)
             ELSE IF ch \in Digits
                 THEN LET e == RunEnd(text, k, Digits)
                          \* a fraction: "." and digits
                          f == IF e <= Len(text) /\ text[e] = "."
                                   THEN RunEnd(text, e + 1, Digits) ELSE e
                      IN  <<<<"num", SubSeq(text, k, f - 1)>>>> \o Tokens(text, f)
             ELSE IF ch = "'"
                 THEN LET q == QuoteAt(text, k + 1)
                      IN  IF q = 0 THEN <<<<"bad", <<ch>>>>>>
                          ELSE <<<<"str", SubSeq(text, k + 1, q - 1)>>>> \o Tokens(text, q + 1)
             ELSE IF ch \in OpChars THEN <<<<"op", <<ch>>>>>> \o Tokens(text, k + 1)
             ELSE <<<<"bad", <<ch>>>>>>

IsOp(toks, p, chars) == p <= Len(toks) /\ toks[p][1] = "op" /\ toks[p][2][1] \in chars

\* The result of a parsing step is bound by a set constructor over the
\* singleton that holds it, {body : r \in {step}}: the body then reads a
\* value, not the expression that computes it.
NoParse == [ok |-> FALSE, node |-> <<>>, pos |-> 0]
Parsed(node, p) == [ok |-> TRUE, node |-> node, pos |-> p]

RECURSIVE ParseExpr(_, _), ParseSum(_, _, _), ParseTerm(_, _), ParseProduct(_, _, _),
          ParseFactor(_, _), ParseTrailers(_, _, _)

ParseExpr(toks, p) ==
    CHOOSE parsed \in
        {IF t.ok THEN ParseSum(toks, t.pos, t.node) ELSE NoParse :
            t \in {ParseTerm(toks, p)}} : TRUE

ParseSum(toks, p, left) ==
    IF IsOp(toks, p, {"+", "-"})
        THEN CHOOSE parsed \in
                {IF r.ok THEN ParseSum(toks, r.pos, <<"bin", toks[p][2][1], left, r.node>>)
                 ELSE NoParse :
                    r \in {ParseTerm(toks, p + 1)}} : TRUE
    ELSE Parsed(left, p)

ParseTerm(toks, p) ==
    CHOOSE parsed \in
        {IF f.ok THEN ParseProduct(toks, f.pos, f.node) ELSE NoParse :
            f \in {ParseFactor(toks, p)}} : TRUE

ParseProduct(toks, p, left) ==
    IF IsOp(toks, p, {"*", "/"})
        THEN CHOOSE parsed \in
                {IF r.ok THEN ParseProduct(toks, r.pos, <<"bin", toks[p][2][1], left, r.node>>)
                 ELSE NoParse :
                    r \in {ParseFactor(toks, p + 1)}} : TRUE
    ELSE Parsed(left, p)

ParseFactor(toks, p) ==
    IF p > Len(toks) THEN NoParse
    ELSE IF toks[p][1] \in {"name", "num", "str"}
        THEN ParseTrailers(toks, p + 1, <<toks[p][1], toks[p][2]>>)
    ELSE IF IsOp(toks, p, {"("})
        THEN CHOOSE parsed \in
                {IF e.ok /\ IsOp(toks, e.pos, {")"})
                     THEN ParseTrailers(toks, e.pos + 1, e.node)
                 ELSE NoParse :
                    e \in {ParseExpr(toks, p + 1)}} : TRUE
    ELSE NoParse

ParseTrailers(toks, p, node) ==
    IF IsOp(toks, p, {"["})
        THEN CHOOSE parsed \in
                {IF e.ok /\ IsOp(toks, e.pos, {"]"})
                     THEN ParseTrailers(toks, e.pos + 1, <<"sub", node, e.node>>)
                 ELSE NoParse :
                    e \in {ParseExpr(toks, p + 1)}} : TRUE
    ELSE IF IsOp(toks, p, {"."})
        THEN IF p + 1 <= Len(toks) /\ toks[p + 1][1] = "name"
                 THEN ParseTrailers(toks, p + 2, <<"attr", node, toks[p + 1][2]>>)
             ELSE NoParse
    ELSE IF IsOp(toks, p, {"("})
        THEN IF IsOp(toks, p + 1, {")"})
                 THEN ParseTrailers(toks, p + 2, <<"call", node, <<>>>>)
             ELSE CHOOSE parsed \in
                    {IF e.ok /\ IsOp(toks, e.pos, {")"})
                         THEN ParseTrailers(toks, e.pos + 1, <<"call", node, <<e.node>>>>)
                     ELSE NoParse :
                        e \in {ParseExpr(toks, p + 1)}} : TRUE
    ELSE Parsed(node, p)

\* The syntax tree of a text, or a SyntaxError.
Parse(text) ==
    CHOOSE parsed \in
        {IF \E k \in 1..Len(toks) : toks[k][1] = "bad" THEN NoParse
         ELSE LET e == ParseExpr(toks, 1)
              IN  IF e.ok /\ e.pos = Len(toks) + 1 THEN e ELSE NoParse :
            toks \in {Tokens(text, 1)}} : TRUE

---------------------------------------------------------------------------
(* Evaluation.  A run-time value is                                          *)
(*   <<"series", cells, dtype>>   a column                                   *)
(*   <<"scalar", cell, pytype>>   a Python int, float or str                 *)
(*   <<"frame", which>>           the DataFrame df ("caller") or             *)
(*                                df_with_calc ("work")                      *)
(*   <<"method", which, name>>    a bound method of that DataFrame           *)
(*   <<"builtin", name>>          a builtin of the interpreter               *)
(* The names the model resolves are the two DataFrames in scope at line 195  *)
(* and the builtin exit; the attribute it resolves is DataFrame.pop.         *)

Inf(sign) == <<"inf", sign, 0>>
IsInf(v) == v[1] = "inf"
IsZero(v) == IsNum(v) /\ v[2] = 0
Sign(v) == IF IsInf(v) THEN v[2] ELSE IF v[2] < 0 THEN -1 ELSE 1

\* IEEE arithmetic on two float cells (a number, an infinity or NaN).
CellArith(o, a, b) ==
    IF IsNull(a) \/ IsNull(b) THEN Null
    ELSE CASE o = "+" ->
                IF IsInf(a) /\ IsInf(b) THEN (IF a[2] = b[2] THEN a ELSE Null)
                ELSE IF IsInf(a) THEN a
                ELSE IF IsInf(b) THEN b
                ELSE NumAdd(a, b)
           [] o = "-" ->
                IF IsInf(a) /\ IsInf(b) THEN (IF a[2] # b[2] THEN a ELSE Null)
                ELSE IF IsInf(a) THEN a
                ELSE IF IsInf(b) THEN Inf(-b[2])
                ELSE NumAdd(a, Num(-b[2], b[3]))
           [] o = "*" ->
                IF IsInf(a) \/ IsInf(b)
                    THEN (IF IsZero(a) \/ IsZero(b) THEN Null ELSE Inf(Sign(a) * Sign(b)))
                ELSE NumMul(a, b)
           [] o = "/" ->
                IF IsInf(a) THEN (IF IsInf(b) THEN Null ELSE Inf(Sign(a) * Sign(b)))
                ELSE IF IsInf(b) THEN Whole(0)
                ELSE IF IsZero(b) THEN (IF IsZero(a) THEN Null ELSE Inf(Sign(a)))
                ELSE Num(a[2] * b[3], a[3] * b[2])

\* 10^k
RECURSIVE Pow10(_)
Pow10(k) == IF k = 0 THEN 1 ELSE 10 * Pow10(k - 1)

\* The value of a NUMBER token: digits, or digits "." digits.
NumberValue(text) ==
    LET dot == IF \E k \in 1..Len(text) : text[k] = "."
                   THEN CHOOSE k \in 1..Len(text) : text[k] = "." ELSE 0
    IN  IF dot = 0 THEN <<"scalar", Whole(DecimalValue(text, 0)), "int">>
        ELSE LET whole == SubSeq(text, 1, dot - 1)
                 frac == SubSeq(text, dot + 1, Len(text))
             IN  <<"scalar",
                   Num(DecimalValue(whole, 0) * Pow10(Len(frac)) + DecimalValue(frac, 0),
                       Pow10(Len(frac))),
                   "float">>

BinOk(val) == [ok |-> TRUE, exc |-> "none", val |-> val]
BinErr(exc) == [ok |-> FALSE, exc |-> exc, val |-> <<>>]

IsNumeric(v) ==
    \/ v[1] = "series" /\ is_numeric_dtype(v[3])
    \/ v[1] = "scalar" /\ v[3] \in {"int", "float"}

\* left <o> right for the arithmetic operators: numbers and numeric columns
\* element by element, text + text, and a TypeError for a number or a numeric
\* column with a text.  Python raises ZeroDivisionError for a zero divisor
\* between two scalars; between columns the division follows IEEE.
BinOp(o, l, r) ==
    IF l[1] = "scalar" /\ r[1] = "scalar"
        THEN IF l[3] = "str" /\ r[3] = "str" /\ o = "+"
                 THEN BinOk(<<"scalar", Str(l[2][2] \o r[2][2]), "str">>)
             ELSE IF l[3] = "str" \/ r[3] = "str" THEN BinErr("TypeError")
             ELSE IF o = "/" /\ IsZero(r[2]) THEN BinErr("ZeroDivisionError")
             ELSE BinOk(<<"scalar", CellArith(o, l[2], r[2]),
                          IF o # "/" /\ l[3] = "int" /\ r[3] = "int" THEN "int" ELSE "float">>)
    ELSE IF IsNumeric(l) /\ IsNumeric(r)
        THEN LET n == IF l[1] = "series" THEN Len(l[2]) ELSE Len(r[2])
                 lc(i) == IF l[1] = "series" THEN l[2][i] ELSE l[2]
                 rc(i) == IF r[1] = "series" THEN r[2][i] ELSE r[2]
             IN  BinOk(<<"series", [i \in 1..n |-> CellArith(o, lc(i), rc(i))], "float64">>)
    ELSE BinErr("TypeError")

EvalOk(st, val) == [res |-> "ok", exc |-> "none", st |-> st, val |-> val]
EvalErr(st, exc) == [res |-> "error", exc |-> exc, st |-> st, val |-> <<>>]
\* exit() raises SystemExit.
EvalExit(st) == EvalErr(st, "SystemExit")

FrameOf(st, which) == IF which = "caller" THEN st.caller ELSE st.work

\* DataFrame.pop(column) on df or df_with_calc: the column leaves that object.
PopColumn(st, which, column) ==
    IF which = "caller"
        THEN [st EXCEPT !.caller = WithoutColumns(@, {column}),
                        !.work = IF st.alias THEN WithoutColumns(@, {column}) ELSE @]
    ELSE [st EXCEPT !.work = WithoutColumns(@, {column}),
                    !.caller = IF st.alias THEN WithoutColumns(@, {column}) ELSE @]

RECURSIVE Eval(_, _)
Eval(node, st) ==
    CASE node[1] = "name" ->
            IF node[2] = <<"d", "f">> THEN EvalOk(st, <<"frame", "caller">>)
            ELSE IF node[2] = <<"d", "f", "_", "w", "i", "t", "h", "_", "c", "a", "l", "c">>
                THEN EvalOk(st, <<"frame", "work">>)
            ELSE IF node[2] = <<"e", "x", "i", "t">> THEN EvalOk(st, <<"builtin", "exit">>)
            ELSE EvalErr(st, "NameError")
      [] node[1] = "num" -> EvalOk(st, NumberValue(node[2]))
      [] node[1] = "str" -> EvalOk(st, <<"scalar", Str(node[2]), "str">>)
      [] node[1] = "bin" ->
            LET l == Eval(node[3], st)
            IN  IF l.res # "ok" THEN l
                ELSE LET r == Eval(node[4], l.st)
                     IN  IF r.res # "ok" THEN r
                         ELSE LET b == BinOp(node[2], l.val, r.val)
                              IN  IF b.ok THEN EvalOk(r.st, b.val) ELSE EvalErr(r.st, b.exc)
      [] node[1] = "sub" ->
            LET o == Eval(node[2], st)
            IN  IF o.res # "ok" THEN o
                ELSE LET k == Eval(node[3], o.st)
                     IN  IF k.res # "ok" THEN k
                         ELSE IF o.val[1] = "frame" /\ k.val[1] = "scalar" /\ k.val[3] = "str"
                             THEN LET d == FrameOf(k.st, o.val[2])
                                      c == LabelOf(k.val[2][2])
                                  IN  IF HasColumn(d, c)
                                          THEN EvalOk(k.st, <<"series", d.data[c], d.dtypes[c]>>)
                                      ELSE EvalErr(k.st, "KeyError")
                         ELSE EvalErr(k.st, "TypeError")
      [] node[1] = "attr" ->
            LET o == Eval(node[2], st)
            IN  IF o.res # "ok" THEN o
                ELSE IF o.val[1] = "frame" /\ node[3] = <<"p", "o", "p">>
                    THEN EvalOk(o.st, <<"method", o.val[2], "pop">>)
                ELSE EvalErr(o.st, "AttributeError")
      [] node[1] = "call" ->
            LET f == Eval(node[2], st)
            IN  IF f.res # "ok" THEN f
                ELSE IF node[3] = <<>>
                    THEN IF f.val[1] = "builtin" THEN EvalExit(f.st)
                         ELSE EvalErr(f.st, "TypeError")
                ELSE LET a == Eval(node[3][1], f.st)
                     IN  IF a.res # "ok" THEN a
                         ELSE IF f.val[1] = "builtin" THEN EvalExit(a.st)
                         ELSE IF f.val[1] = "method" /\ a.val[1] = "scalar" /\ a.val[3] = "str"
                             THEN LET d == FrameOf(a.st, f.val[2])
                                      c == LabelOf(a.val[2][2])
                                  IN  IF HasColumn(d, c)
                                          THEN EvalOk(PopColumn(a.st, f.val[2], c),
                                                      <<"series", d.data[c], d.dtypes[c]>>)
                                      ELSE EvalErr(a.st, "KeyError")
                         ELSE EvalErr(a.st, "TypeError")

\* df[column] = cells: the column replaced in place when it exists, appended
\* as the last column otherwise.
WithColumn(d, column, cells, dtype) ==
    LET cols == IF HasColumn(d, column) THEN d.columns ELSE Append(d.columns, column)
    IN  [columns |-> cols,
         dtypes |-> [c \in Range(cols) |-> IF c = column THEN dtype ELSE d.dtypes[c]],
         index |-> d.index,
         data |-> [c \in Range(cols) |-> IF c = column THEN cells ELSE d.data[c]]]

\* df_with_calc[column_name] = value (line 195): a column is assigned as it
\* is, a scalar is repeated on every row.
AssignValue(st, column_name, val) ==
    LET n == NRows(st.work)
        cells == IF val[1] = "series" THEN val[2] ELSE [i \in 1..n |-> val[2]]
        dtype == IF val[1] = "series" THEN val[3]
                 ELSE CASE val[3] = "int" -> "int64"
                        [] val[3] = "float" -> "float64"
                        [] val[3] = "str" -> "object"
    IN  [st EXCEPT !.work = WithColumn(@, column_name, cells, dtype),
                   !.caller = IF st.alias THEN WithColumn(@, column_name, cells, dtype) ELSE @]

\* return df, f"Error in formula: {str(e)}": the caller's own object and the
\* description, which the model keeps as the name of the exception.
Failed(st, exc) ==
    [df |-> st.caller, ret |-> st.caller, error |-> exc, raised |-> "none",
     reported |-> <<>>]

\* The exceptions that are not subclasses of Exception, which the except
\* clause of line 198 does not catch.
BaseExceptions == {"SystemExit"}

\* df_with_calc[column_name] = <the value of eval> (line 195) and the except
\* clause of lines 198-199.  A DataFrame of several columns cannot be assigned
\* to one column (ValueError).
assign_or_fail(column_name, e) ==
    IF e.res = "error"
        THEN IF e.exc \in BaseExceptions THEN Raised(e.st, e.exc)
             ELSE Failed(e.st, e.exc)
    ELSE CASE e.val[1] \in {"series", "scalar"} ->
                 Returned(AssignValue(e.st, column_name, e.val), "None", <<>>)
           [] e.val[1] = "frame" -> Failed(e.st, "ValueError")

\* eval(working_formula) at line 195: a text that does not compile is a
\* SyntaxError, caught at line 198.
eval(st, column_name, tree) ==
    IF ~tree.ok THEN Failed(st, "SyntaxError")
    ELSE assign_or_fail(column_name, Eval(tree.node, st))

\* The try block of lines 188-199.
add_calculated_column(d, column_name, formula, column_references) ==
    CHOOSE result \in
        {eval(copy(d), column_name, tree) :
            tree \in {Parse(working_formula) :
                working_formula \in {substitute(formula, column_references)}}} : TRUE

---------------------------------------------------------------------------
(* The datasets and arguments the model draws from *)

XVals == {Null, Whole(1), Whole(3)}
SVals == {Null, Str(<<"a">>)}

Labels(n) == [i \in 1..n |-> i]

\* A float column x and a text column s, of 0..MaxRows rows.
DatasetsXS ==
    UNION {{[columns |-> <<"x", "s">>,
             dtypes |-> [x |-> "float64", s |-> "object"],
             index |-> Labels(n),
             data |-> [x |-> xs, s |-> ss]] :
                xs \in [1..n -> XVals], ss \in [1..n -> SVals]} : n \in 0..MaxRows}

\* The literals of a custom entry: empty, a number, a text that is no number,
\* and a text float() reads as NaN.
Literals == {<<>>, <<"7">>, <<"x">>, <<"n", "a", "n">>}

FillMethods ==
    {[type |-> t, value |-> <<>>] : t \in {"mean", "median", "mode", "drop"}}
        \cup {[type |-> "custom", value |-> v] : v \in Literals}

FillEntries(c) == {[column |-> c, type |-> m.type, value |-> m.value] : m \in FillMethods}

\* fill_config is a dict: its keys are distinct and it keeps insertion order.
RECURSIVE FillConfigsOver(_)
FillConfigsOver(cols) ==
    {<<>>} \cup UNION {{<<e>> \o rest : e \in FillEntries(c),
                                         rest \in FillConfigsOver(cols \ {c})} : c \in cols}

FillConfigs == FillConfigsOver({"x", "s"})

Filter(column, operator, value) ==
    [column |-> column, operator |-> operator, value |-> value]

\* The filter specifications the model draws from: every operator on the
\* float column and on the text column, a comparison of each column with a
\* value of the other type, a between whose value is no 2-element list, and
\* an operator filter_data does not know.
FilterPool ==
    {Filter("x", "equals", Whole(1)),
     Filter("x", "not_equals", Whole(1)),
     Filter("x", "greater_than", Whole(1)),
     Filter("x", "less_than", Whole(3)),
     Filter("x", "between", List(<<Whole(1), Whole(3)>>)),
     Filter("x", "between", List(<<Whole(2), Whole(3)>>)),
     Filter("x", "between", List(<<Whole(3), Whole(1)>>)),
     Filter("x", "between", List(<<Whole(1)>>)),
     Filter("x", "between", Whole(1)),
     Filter("x", "contains", Whole(1)),
     Filter("x", "greater_than", Str(<<"a">>)),
     Filter("x", "starts_with", Whole(1)),
     Filter("s", "equals", Str(<<"a">>)),
     Filter("s", "not_equals", Str(<<"a">>)),
     Filter("s", "contains", Str(<<"a">>)),
     Filter("s", "less_than", Str(<<"b">>)),
     Filter("s", "greater_than", Whole(1))}

\* Lists of at most two filter specifications.
FilterLists ==
    {<<>>} \cup {<<f>> : f \in FilterPool} \cup {<<f, g>> : f \in FilterPool, g \in FilterPool}

YVals == {Null, Whole(0), Whole(2)}

\* Two float columns x and y, of 0..MaxRows rows.
DatasetsXY ==
    UNION {{[columns |-> <<"x", "y">>,
             dtypes |-> [x |-> "float64", y |-> "float64"],
             index |-> Labels(n),
             data |-> [x |-> xs, y |-> ys]] :
                xs \in [1..n -> XVals], ys \in [1..n -> YVals]} : n \in 0..MaxRows}

\* The alias map the page builds for the columns x, y: A1 -> x, A2 -> y
\* (app.py lines 565-567).
AppReferences ==
    <<[ref |-> <<"A", "1">>, actual_col |-> "x"], [ref |-> <<"A", "2">>, actual_col |-> "y"]>>

\* The formulas the model draws from:
\*   A1 + A2   A1 * 1.1   A1/A2   (A1+A2)*2   2           arithmetic
\*   A3+A1                                                an alias not in the map
\*   A1+'a'                                               a type mismatch
\*   A1+      A10                                         syntax errors
\*   A1+1/0                                               a zero divisor literal
\*   exit()   df.pop('x')   df.pop('x')+'a'               calls
FormulaTexts ==
    {<<"A", "1", " ", "+", " ", "A", "2">>,
     <<"A", "1", " ", "*", " ", "1", ".", "1">>,
     <<"A", "1", "/", "A", "2">>,
     <<"(", "A", "1", "+", "A", "2", ")", "*", "2">>,
     <<"2">>,
     <<"A", "3", "+", "A", "1">>,
     <<"A", "1", "+", "'", "a", "'">>,
     <<"A", "1", "+">>,
     <<"A", "1", "0">>,
     <<"A", "1", "+", "1", "/", "0">>,
     <<"e", "x", "i", "t", "(", ")">>,
     <<"d", "f", ".", "p", "o", "p", "(", "'", "x", "'", ")">>,
     <<"d", "f", ".", "p", "o", "p", "(", "'", "x", "'", ")", "+", "'", "a", "'">>}

\* The name of the new column: a new label, or the label of a column.
NewColumnNames == {"c", "x"}

\* The lists of distinct names to drop, over the columns x, s and a name z
\* that is no column.
RECURSIVE DropListsOver(_)
DropListsOver(names) ==
    {<<>>} \cup UNION {{<<n>> \o rest : rest \in DropListsOver(names \ {n})} : n \in names}

DropLists == DropListsOver({"x", "s", "z"})

NoDf == [columns |-> <<>>, dtypes |-> <<>>, index |-> <<>>, data |-> <<>>]
NoOut == [df |-> NoDf, ret |-> NoDf, error |-> "None", raised |-> "none", reported |-> <<>>]
NoCalc == [column_name |-> "", formula |-> <<>>, column_references |-> <<>>]

\* st.session_state when the session starts (app.py lines 17-18): data is
\* None and there is no key cleaned_data.
NoData == [file |-> "None", edits |-> 0]
Absent == [file |-> "absent", edits |-> 0]
NoSession ==
    [data |-> NoData, cleaned_data |-> Absent, data_cleaned |-> FALSE,
     chat_history |-> <<>>, dashboard_config |-> <<>>]

\* No figure (Python None), and the state before any chart was asked for.
NoFigure == [chart_type |-> "None", x |-> "", y |-> ""]
NoChart == [chart_type |-> "", config |-> [x_column |-> "", y_column |-> ""],
            ret |-> NoFigure, raised |-> "none", reported |-> <<>>]

InitWith(datasets) ==
    /\ pc = "ready"
    /\ op = "none"
    /\ df \in datasets
    /\ df0 = df
    /\ fill_config = <<>>
    /\ filters = <<>>
    /\ calc = NoCalc
    /\ columns_to_drop = <<>>
    /\ out = NoOut
    /\ out2 = NoOut
    /\ page = "Data Upload"
    /\ uploaded_file = "None"
    /\ session_state = NoSession
    /\ last_loaded = "None"
    /\ chart = NoChart

---------------------------------------------------------------------------
(* The imputer: one call, then the same fill specification applied again to *)
(* what the call returned.                                                   *)

HandleMissingValues ==
    /\ pc = "ready"
    /\ \E config \in FillConfigs :
        LET r == handle_missing_values(df, config)
        IN  /\ fill_config' = config
            /\ out' = r
            /\ df' = r.df
    /\ df0' = df
    /\ pc' = "called"
    /\ op' = "handle_missing_values"
    /\ UNCHANGED <<filters, calc, columns_to_drop, out2>> /\ UNCHANGED pages

Reapply ==
    /\ pc = "called"
    /\ op = "handle_missing_values"
    /\ out2' = handle_missing_values(out.ret, fill_config)
    /\ pc' = "again"
    /\ UNCHANGED <<op, df, df0, fill_config, filters, calc, columns_to_drop, out>> /\ UNCHANGED pages

InitImpute == InitWith(DatasetsXS)

NextImpute == HandleMissingValues \/ Reapply

SpecImpute == InitImpute /\ [][NextImpute]_vars

---------------------------------------------------------------------------
(* Claims about the imputer, checked under SpecImpute *)

Imputed == pc \in {"called", "again"} /\ op = "handle_missing_values"

HasDrop(config) == \E k \in 1..Len(config) : config[k].type = "drop"

\* The literal of a custom entry is non-empty and, for a numeric column, one
\* float() accepts.
Coercible(dtype, literal) ==
    literal # <<>> /\ (is_numeric_dtype(dtype) => float(literal).ok)

\* The column an entry names as the entry finds it: after the entries before it.
ColumnAtEntry(k) ==
    fill_loop(copy(df0), SubSeq(fill_config, 1, k - 1)).work.data[fill_config[k].column]

C2_Idempotent == pc = "again" => out2.ret = out.ret

\* A specification mixing a drop and a mean entry changed the dataset on the
\* first call (a null filled, a row dropped) and was applied again.
C2_Witness ==
    /\ pc = "again"
    /\ HasDrop(fill_config)
    /\ \E k \in 1..Len(fill_config) : fill_config[k].type = "mean"
    /\ NRows(out.ret) < NRows(df0)
    /\ \E i \in 1..NRows(out.ret) :
        IsNull(df0.data["x"][out.ret.index[i]]) /\ ~IsNull(out.ret.data["x"][i])

NotNullMask(d, column) == [i \in 1..NRows(d) |-> ~IsNull(d.data[column][i])]

\* C3: the entries are applied in the order of the specification, each to the
\* dataset the previous ones left: the call equals the single-entry calls
\* chained in that order; with a drop on A before a mean on a numeric column
\* B, B's nulls are filled with the mean of B over the rows where A is not
\* null, and with the mean on B before the drop on A, with the mean of B over
\* all rows.
C3_OrderOfApplication ==
    (pc = "called" /\ op = "handle_missing_values" /\ Len(fill_config) = 2) =>
        LET e1 == fill_config[1]
            e2 == fill_config[2]
            A == IF e1.type = "drop" THEN e1.column ELSE e2.column
            B == IF e1.type = "drop" THEN e2.column ELSE e1.column
            survive == NotNullMask(df0, A)
        IN  /\ out.ret = handle_missing_values(
                             handle_missing_values(df0, <<e1>>).ret, <<e2>>).ret
            /\ (e1.type = "drop" /\ e2.type = "mean" /\ is_numeric_dtype(df0.dtypes[B])) =>
                   out.ret.data[B] = fillna(Take(df0.data[B], survive),
                                            mean(Take(df0.data[B], survive)))
            /\ (e1.type = "mean" /\ e2.type = "drop" /\ is_numeric_dtype(df0.dtypes[B])) =>
                   out.ret.data[B] = Take(fillna(df0.data[B], mean(df0.data[B])), survive)

\* A drop on s before a mean on x filled a null of x with a mean that differs
\* from the mean of x over all rows.
C3_Witness ==
    /\ pc = "called"
    /\ op = "handle_missing_values"
    /\ Len(fill_config) = 2
    /\ fill_config[1].column = "s" /\ fill_config[1].type = "drop"
    /\ fill_config[2].column = "x" /\ fill_config[2].type = "mean"
    /\ \E i \in 1..NRows(out.ret) :
        /\ IsNull(df0.data["x"][out.ret.index[i]])
        /\ IsNum(out.ret.data["x"][i])
        /\ out.ret.data["x"][i] # mean(df0.data["x"])
        /\ IsNum(mean(df0.data["x"]))

---------------------------------------------------------------------------
(* The row filter *)

FilterData ==
    /\ pc = "ready"
    /\ \E configs \in FilterLists :
        LET r == filter_data(df, configs)
        IN  /\ filters' = configs
            /\ out' = r
            /\ df' = r.df
    /\ df0' = df
    /\ pc' = "called"
    /\ op' = "filter_data"
    /\ UNCHANGED <<fill_config, calc, columns_to_drop, out2>> /\ UNCHANGED pages

InitFilter == InitWith(DatasetsXS)

NextFilter == FilterData

SpecFilter == InitFilter /\ [][NextFilter]_vars

Filtered == pc = "called" /\ op = "filter_data"

\* Whether row i of d satisfies the predicate of a filter specification; a
\* specification that selects no branch of filter_data (absent column, unknown
\* operator, between without a 2-element list) states no predicate.
Satisfies(d, i, config) ==
    IF ~HasColumn(d, config.column) THEN TRUE
    ELSE LET cell == d.data[config.column][i]
             value == config.value
         IN  CASE config.operator = "equals" -> CellEquals(cell, value)
               [] config.operator = "not_equals" -> ~CellEquals(cell, value)
               [] config.operator = "contains" -> str_contains(astype_str(cell), str(value))
               [] config.operator = "greater_than" -> CellOrder(cell, "gt", value) = "T"
               [] config.operator = "less_than" -> CellOrder(cell, "lt", value) = "T"
               [] config.operator = "between" ->
                    (IsList(value) /\ Len(value[2]) = 2) =>
                        /\ CellOrder(cell, "ge", value[2][1]) = "T"
                        /\ CellOrder(cell, "le", value[2][2]) = "T"
               [] OTHER -> TRUE

\* C7: when no specification fails, filter_data returns exactly the rows of
\* the input, in their order and with their labels, that satisfy the predicate
\* of every specification; the columns are the input's.
C7_ConjunctionOfPredicates ==
    (Filtered /\ out.reported = <<>>) =>
        out.ret = SelectRows(df0, [i \in 1..NRows(df0) |->
                                      \A k \in 1..Len(filters) : Satisfies(df0, i, filters[k])])

\* Two specifications on different columns each removed a row the other kept.
C7_Witness ==
    /\ Filtered
    /\ out.reported = <<>>
    /\ Len(filters) = 2
    /\ filters[1].column # filters[2].column
    /\ NRows(out.ret) > 0
    /\ \E i, j \in 1..NRows(df0) :
        /\ Satisfies(df0, i, filters[1]) /\ ~Satisfies(df0, i, filters[2])
        /\ ~Satisfies(df0, j, filters[1]) /\ Satisfies(df0, j, filters[2])

\* C8: between [lo, hi] on a numeric column keeps exactly the rows whose value
\* v has lo <= v <= hi, a null excluded, which is what keeping the rows with
\* v >= lo and then, of those, the rows with v <= hi gives.
C8_BetweenInclusive ==
    (/\ Filtered
     /\ Len(filters) = 1
     /\ filters[1].operator = "between"
     /\ is_numeric_dtype(df0.dtypes[filters[1].column])
     /\ IsList(filters[1].value)
     /\ Len(filters[1].value[2]) = 2) =>
        LET c == filters[1].column
            lo == filters[1].value[2][1]
            hi == filters[1].value[2][2]
            atLeast == SelectRows(df0, [i \in 1..NRows(df0) |->
                           IsNum(df0.data[c][i]) /\ NumLeq(lo, df0.data[c][i])])
            thenAtMost == SelectRows(atLeast, [i \in 1..NRows(atLeast) |->
                           IsNum(atLeast.data[c][i]) /\ NumLeq(atLeast.data[c][i], hi)])
        IN  /\ out.reported = <<>>
            /\ out.ret = SelectRows(df0, [i \in 1..NRows(df0) |->
                             /\ IsNum(df0.data[c][i])
                             /\ NumLeq(lo, df0.data[c][i])
                             /\ NumLeq(df0.data[c][i], hi)])
            /\ out.ret = thenAtMost

\* between [1, 3] kept a row whose value is the lower bound and a row whose
\* value is the upper bound, and removed a null row.
C8_Witness ==
    /\ Filtered
    /\ filters = <<Filter("x", "between", List(<<Whole(1), Whole(3)>>))>>
    /\ \E i, j \in 1..NRows(out.ret) :
        out.ret.data["x"][i] = Whole(1) /\ out.ret.data["x"][j] = Whole(3)
    /\ NRows(out.ret) < NRows(df0)

\* The dataset a specification is evaluated on: what the ones before it left.
FilteredBefore(k) ==
    filter_loop([st |-> copy(df0), reported |-> <<>>], SubSeq(filters, 1, k - 1)).st.work

\* Whether evaluating specification k raises.
Fails(k) ==
    /\ HasColumn(df0, filters[k].column)
    /\ ~filter_mask(FilteredBefore(k), filters[k]).ok

\* C9: filter_data never raises; a specification whose evaluation raises is
\* reported, leaves the rows kept so far as they are, and the later
\* specifications are still applied: the result is that of the list without
\* the failing specifications.
C9_PartialFailure ==
    Filtered =>
        LET failing == [k \in 1..Len(filters) |-> Fails(k)]
            others == Take(filters, [k \in 1..Len(filters) |-> ~failing[k]])
        IN  /\ out.raised = "none"
            /\ out.reported = [j \in 1..Len(TrueIdx(failing, 1)) |->
                                  filters[TrueIdx(failing, 1)[j]].column]
            /\ out.ret = SelectRows(df0, [i \in 1..NRows(df0) |->
                             \A k \in 1..Len(others) : Satisfies(df0, i, others[k])])

\* A first specification that raises was reported, and the second one still
\* removed a row.
C9_Witness ==
    /\ Filtered
    /\ Len(filters) = 2
    /\ Fails(1)
    /\ out.reported = <<filters[1].column>>
    /\ 0 < NRows(out.ret) /\ NRows(out.ret) < NRows(df0)

---------------------------------------------------------------------------
(* The column synthesizer *)

AddCalculatedColumn ==
    /\ pc = "ready"
    /\ \E column_name \in NewColumnNames, formula \in FormulaTexts :
        /\ calc' = [column_name |-> column_name, formula |-> formula,
                    column_references |-> AppReferences]
        /\ out' = add_calculated_column(df, column_name, formula, AppReferences)
        /\ df' = out'.df
    /\ df0' = df
    /\ pc' = "called"
    /\ op' = "add_calculated_column"
    /\ UNCHANGED <<fill_config, filters, columns_to_drop, out2>> /\ UNCHANGED pages

InitCalc == InitWith(DatasetsXY)

NextCalc == AddCalculatedColumn

SpecCalc == InitCalc /\ [][NextCalc]_vars

Synthesized == pc = "called" /\ op = "add_calculated_column"

\* C4: add_calculated_column never raises to its caller; when the evaluation
\* fails it returns the input dataset, nothing added or changed, with an
\* error description, and when it succeeds it returns a dataset with the new
\* column and no error.
C4_NeverRaises ==
    Synthesized =>
        /\ out.raised = "none"
        /\ out.error # "None" => out.ret = df0
        /\ out.error = "None" => HasColumn(out.ret, calc.column_name)

\* a + b for two float cells: NaN when either is null.
SumCell(a, b) == IF IsNum(a) /\ IsNum(b) THEN NumAdd(a, b) ELSE Null

\* C5: with the alias map A1 -> x, A2 -> y over numeric columns and the
\* formula "A1 + A2", the call succeeds and the new column holds, in every
\* row, the sum of the row's x and y.
C5_ElementwiseSum ==
    (/\ Synthesized
     /\ calc.formula = <<"A", "1", " ", "+", " ", "A", "2">>
     /\ calc.column_references = AppReferences
     /\ HasColumn(df0, "x") /\ is_numeric_dtype(df0.dtypes["x"])
     /\ HasColumn(df0, "y") /\ is_numeric_dtype(df0.dtypes["y"])) =>
        /\ out.raised = "none"
        /\ out.error = "None"
        /\ HasColumn(out.ret, calc.column_name)
        /\ out.ret.index = df0.index
        /\ \A i \in 1..NRows(df0) :
            out.ret.data[calc.column_name][i] = SumCell(df0.data["x"][i], df0.data["y"][i])

\* "A1 + A2" gave a new column c whose first cell is 3 + 2 = 5.
C5_Witness ==
    /\ Synthesized
    /\ calc.formula = <<"A", "1", " ", "+", " ", "A", "2">>
    /\ calc.column_name = "c"
    /\ NRows(df0) = MaxRows
    /\ df0.data["x"][1] = Whole(3) /\ df0.data["y"][1] = Whole(2)
    /\ out.ret.data["c"][1] = Whole(5)

---------------------------------------------------------------------------
(* The column dropper *)

DropColumns ==
    /\ pc = "ready"
    /\ \E columns \in DropLists :
        LET r == drop_columns(df, columns)
        IN  /\ columns_to_drop' = columns
            /\ out' = r
            /\ df' = r.df
    /\ df0' = df
    /\ pc' = "called"
    /\ op' = "drop_columns"
    /\ UNCHANGED <<fill_config, filters, calc, out2>> /\ UNCHANGED pages

InitDrop == InitWith(DatasetsXS)

NextDrop == DropColumns

SpecDrop == InitDrop /\ [][NextDrop]_vars

Dropped == pc = "called" /\ op = "drop_columns"

\* C6: drop_columns raises nothing and returns the input without the
\* requested names that are columns of it: the other columns in their order,
\* with their dtypes and cells, and the same rows; when no requested name is
\* a column the result is the input.
C6_DropsExistingOnly ==
    Dropped =>
        LET gone == Range(columns_to_drop) \cap Range(df0.columns)
            kept == Take(df0.columns, [k \in 1..Len(df0.columns) |-> df0.columns[k] \notin gone])
        IN  /\ out.raised = "none"
            /\ out.ret.columns = kept
            /\ out.ret.index = df0.index
            /\ DOMAIN out.ret.data = Range(kept)
            /\ \A c \in Range(kept) :
                out.ret.data[c] = df0.data[c] /\ out.ret.dtypes[c] = df0.dtypes[c]
            /\ gone = {} => out.ret = df0

\* A request naming a column and a name that is no column removed the column
\* and kept the other one with its cells.
C6_Witness ==
    /\ Dropped
    /\ columns_to_drop = <<"z", "x">>
    /\ NRows(df0) = MaxRows
    /\ out.ret.columns = <<"s">>
    /\ out.ret.data["s"] = df0.data["s"]

---------------------------------------------------------------------------
(* Every transformation, on every dataset of the model *)

Init == InitWith(DatasetsXS \cup DatasetsXY)

Next ==
    \/ HandleMissingValues
    \/ Reapply
    \/ FilterData
    \/ AddCalculatedColumn
    \/ DropColumns

Spec == Init /\ [][Next]_vars

\* C10: no transformation mutates the dataset passed to it: after the call,
\* returned or failed, the caller's dataset has the columns, rows and cells it
\* had before.
C10_InputUnchanged == pc = "called" => df = df0

---------------------------------------------------------------------------
(* Entries that name a column the dataset does not have *)

\* Fill specifications over a column of the dataset and the name z, which is
\* no column, with at least one entry on z.
FillConfigsWithAbsent ==
    {c \in FillConfigsOver({"x", "z"}) \cup FillConfigsOver({"s", "z"}) :
        \E k \in 1..Len(c) : c[k].column = "z"}

\* Filter specifications on z: one per kind of predicate, and one whose
\* comparison would raise on a text column.
AbsentFilterPool ==
    {Filter("z", "equals", Whole(1)),
     Filter("z", "contains", Str(<<"a">>)),
     Filter("z", "greater_than", Whole(1))}

\* Lists of at most two filter specifications, at least one of them on z.
FilterListsWithAbsent ==
    {<<f>> : f \in AbsentFilterPool}
        \cup {<<f, g>> : f \in AbsentFilterPool, g \in FilterPool \cup AbsentFilterPool}
        \cup {<<f, g>> : f \in FilterPool, g \in AbsentFilterPool}

FillAbsent ==
    /\ pc = "ready"
    /\ \E config \in FillConfigsWithAbsent :
        /\ fill_config' = config
        /\ out' = handle_missing_values(df, config)
        /\ df' = out'.df
    /\ df0' = df
    /\ pc' = "called"
    /\ op' = "handle_missing_values"
    /\ UNCHANGED <<filters, calc, columns_to_drop, out2>> /\ UNCHANGED pages

FilterAbsent ==
    /\ pc = "ready"
    /\ \E configs \in FilterListsWithAbsent :
        /\ filters' = configs
        /\ out' = filter_data(df, configs)
        /\ df' = out'.df
    /\ df0' = df
    /\ pc' = "called"
    /\ op' = "filter_data"
    /\ UNCHANGED <<fill_config, calc, columns_to_drop, out2>> /\ UNCHANGED pages

SpecSkip == InitWith(DatasetsXS) /\ [][FillAbsent \/ FilterAbsent]_vars

\* The entries of a list that name a column of d.
OnColumnsOf(d, entries) ==
    Take(entries, [k \in 1..Len(entries) |-> HasColumn(d, entries[k].column)])

\* C11: an entry of a fill specification, or a filter specification, that
\* names a column the dataset does not have is a no-op that signals no error:
\* the call returns what the same call without those entries returns, raises
\* nothing and reports nothing more.
C11_SilentSkip ==
    /\ (pc = "called" /\ op = "handle_missing_values") =>
            /\ out.raised = "none"
            /\ out.error = "None"
            /\ out.reported = <<>>
            /\ out.ret = handle_missing_values(df0, OnColumnsOf(df0, fill_config)).ret
    /\ (pc = "called" /\ op = "filter_data") =>
            /\ out.raised = "none"
            /\ out.reported = filter_data(df0, OnColumnsOf(df0, filters)).reported
            /\ \A k \in 1..Len(out.reported) : HasColumn(df0, out.reported[k])
            /\ out.ret = filter_data(df0, OnColumnsOf(df0, filters)).ret

\* A mean entry on z came first and the drop entry on x after it still
\* removed a row.
C11_Witness ==
    /\ pc = "called"
    /\ op = "handle_missing_values"
    /\ Len(fill_config) = 2
    /\ fill_config[1].column = "z" /\ fill_config[1].type = "mean"
    /\ fill_config[2].column = "x" /\ fill_config[2].type = "drop"
    /\ 0 < NRows(out.ret) /\ NRows(out.ret) < NRows(df0)

---------------------------------------------------------------------------
(* Operators filter_data does not know *)

SupportedOperators ==
    {"equals", "not_equals", "contains", "greater_than", "less_than", "between"}

\* C12: a filter specification on an existing column whose operator is not a
\* supported one is captured as a validation error: filter_data does not
\* raise and reports a message for that specification.
C12_UnsupportedOperatorReported ==
    Filtered =>
        /\ out.raised = "none"
        /\ \A k \in 1..Len(filters) :
            (HasColumn(df0, filters[k].column) /\ filters[k].operator \notin SupportedOperators)
                => \E j \in 1..Len(out.reported) : out.reported[j] = filters[k].column

---------------------------------------------------------------------------
(* DataProcessor.get_missing_value_summary *)

\* The share left as a fraction, not multiplied by 100.
missing_fraction(missing_count, total_count) ==
    IF total_count > 0 THEN Num(missing_count, total_count) ELSE Whole(0)

\* (missing_count / total_count * 100) if total_count > 0 else 0 (line 218).
missing_percentage(missing_count, total_count) ==
    IF total_count > 0 THEN Num(missing_count * 100, total_count) ELSE Whole(0)

\* The dict built by lines 211-222, one record per column label; the method
\* reads df and assigns nothing to it.
get_missing_value_summary(d) ==
    LET missing_info ==
            [col \in Range(d.columns) |->
                LET missing_count == CountNull(d.data[col])
                    total_count == NRows(d)
                IN  [missing_count |-> missing_count,
                     total_count |-> total_count,
                     missing_percentage |-> missing_percentage(missing_count, total_count),
                     data_type |-> d.dtypes[col],
                     has_missing |-> missing_count > 0]]
    IN  [df |-> d, ret |-> missing_info, error |-> "None", raised |-> "none",
         reported |-> <<>>]

GetMissingValueSummary ==
    /\ pc = "ready"
    /\ out' = get_missing_value_summary(df)
    /\ df' = out'.df
    /\ df0' = df
    /\ pc' = "called"
    /\ op' = "get_missing_value_summary"
    /\ UNCHANGED <<fill_config, filters, calc, columns_to_drop, out2>> /\ UNCHANGED pages

SpecSummary ==
    InitWith(DatasetsXS \cup DatasetsXY) /\ [][GetMissingValueSummary]_vars

Summarized == pc = "called" /\ op = "get_missing_value_summary"

\* C13: get_missing_value_summary returns a record for every column of the
\* dataset and for no other key; in each, total_count is the row count,
\* missing_count is the number of null cells of the column (between 0 and
\* total_count), has_missing is true exactly when missing_count > 0, and
\* missing_percentage is 0 when total_count is 0 and missing_count /
\* total_count * 100 otherwise; nothing is raised and the dataset is unchanged.
C13_MissingValueSummary ==
    Summarized =>
        /\ out.raised = "none"
        /\ df = df0
        /\ DOMAIN out.ret = Range(df0.columns)
        /\ \A c \in Range(df0.columns) :
            LET r == out.ret[c]
            IN  /\ r.total_count = NRows(df0)
                /\ r.missing_count = Cardinality({i \in 1..NRows(df0) : df0.data[c][i] = Null})
                /\ 0 <= r.missing_count /\ r.missing_count <= r.total_count
                /\ r.has_missing <=> r.missing_count > 0
                /\ r.missing_percentage =
                       IF r.total_count = 0 THEN Whole(0)
                       ELSE NumMul(Num(r.missing_count, r.total_count), Whole(100))

\* A dataset of three rows with one null in x and none in s: a third of x is
\* missing and s has nothing missing.
C13_Witness ==
    /\ Summarized
    /\ NRows(df0) = 3
    /\ HasColumn(df0, "s")
    /\ out.ret["x"].missing_count = 1
    /\ out.ret["x"].missing_percentage = Num(100, 3)
    /\ out.ret["x"].has_missing
    /\ ~out.ret["s"].has_missing
    /\ out.ret["s"].missing_percentage = Whole(0)

---------------------------------------------------------------------------
(* The pages of app.py that hold the dataset in st.session_state.  Every     *)
(* interaction runs the script once, from the top, for the selected page.    *)
(* A dataset is kept here as the file it was loaded from and the number of   *)
(* transformations applied to it since: [file, edits].                       *)
(* NoData is the value None and Absent a key the session does not have.      *)

\* The most transformations the model applies to one loaded dataset.
MaxEdits == 2

\* The files the user picks; load_file raises for bad.csv (line 36).
Files == {"a.csv", "b.csv", "bad.csv"}

Pages == {"Data Upload", "Data Cleaning", "Dashboard Builder", "AI Data Chat", "Reports"}

\* data_processor.load_file(uploaded_file): a new dataset, or an exception.
load_file(file) ==
    IF file = "bad.csv" THEN [ok |-> FALSE, data |-> NoData]
    ELSE [ok |-> TRUE, data |-> [file |-> file, edits |-> 0]]

\* A dataset returned by a transformation of DataProcessor.
Transformed(data) == [data EXCEPT !.edits = @ + 1]

\* Lines 103-107 and 254-255: with a file in the uploader the page loads it
\* and stores it as data; a failed load is reported and stores nothing.
upload_page(ss, file) ==
    IF file = "None" THEN ss
    ELSE IF load_file(file).ok THEN [ss EXCEPT !.data = load_file(file).data]
    ELSE ss

\* Lines 404-411: the working copy is taken from data only when the session
\* has no key cleaned_data yet.
cleaning_page(ss) ==
    IF ss.data = NoData THEN ss
    ELSE IF ss.cleaned_data = Absent THEN [ss EXCEPT !.cleaned_data = ss.data]
    ELSE ss

\* The file whose load the page performed in this run, if it did.
Loaded(file, before) == IF file # "None" /\ load_file(file).ok THEN file ELSE before

\* The sidebar selectbox: the script runs for the page chosen; the uploader
\* of a page that is not shown loses its file.
SelectPage ==
    /\ \E p \in Pages \ {page} :
        /\ page' = p
        /\ uploaded_file' = "None"
        /\ session_state' = IF p = "Data Cleaning" THEN cleaning_page(session_state)
                             ELSE session_state
    /\ UNCHANGED last_loaded
    /\ UNCHANGED processor /\ UNCHANGED chart

\* The user puts a file in the uploader of the Data Upload page.
UploadFile ==
    /\ page = "Data Upload"
    /\ \E file \in Files :
        /\ uploaded_file' = file
        /\ session_state' = upload_page(session_state, file)
        /\ last_loaded' = Loaded(file, last_loaded)
    /\ UNCHANGED page
    /\ UNCHANGED processor /\ UNCHANGED chart

\* "Apply Missing Value Handling" on the Data Upload page (lines 176-182 with
\* a file in the uploader, lines 312-318 without): the run stores the imputed
\* dataset as data and calls st.rerun(); the run that follows loads the file
\* of the uploader again when there is one, which replaces data, or fails to
\* read it a second time, which leaves data as stored.
ApplyMissingValueHandling ==
    /\ page = "Data Upload"
    /\ LET ss == upload_page(session_state, uploaded_file)
       IN  /\ ss.data # NoData
           /\ uploaded_file # "None" => load_file(uploaded_file).ok
           /\ ss.data.edits < MaxEdits
           /\ \E reloads \in BOOLEAN :
               LET applied == [ss EXCEPT !.data = Transformed(ss.data),
                                         !.data_cleaned = TRUE]
               IN  session_state' = IF reloads THEN upload_page(applied, uploaded_file)
                                    ELSE applied
    /\ last_loaded' = Loaded(uploaded_file, last_loaded)
    /\ UNCHANGED <<page, uploaded_file>>
    /\ UNCHANGED processor /\ UNCHANGED chart

\* A button of the Data Cleaning page that transforms the working copy
\* (lines 490, 523, 576, 597).
CleanStep ==
    /\ page = "Data Cleaning"
    /\ LET ss == cleaning_page(session_state)
       IN  /\ ss.data # NoData
           /\ ss.cleaned_data.edits < MaxEdits
           /\ session_state' = [ss EXCEPT !.cleaned_data = Transformed(ss.cleaned_data)]
    /\ UNCHANGED <<page, uploaded_file, last_loaded>>
    /\ UNCHANGED processor /\ UNCHANGED chart

\* "Update Main Dataset" (lines 636-640).
UpdateMainDataset ==
    /\ page = "Data Cleaning"
    /\ LET ss == cleaning_page(session_state)
       IN  /\ ss.data # NoData
           /\ session_state' = [ss EXCEPT !.data = ss.cleaned_data]
    /\ UNCHANGED <<page, uploaded_file, last_loaded>>
    /\ UNCHANGED processor /\ UNCHANGED chart

SpecApp ==
    /\ InitWith({NoDf})
    /\ [][\/ SelectPage
          \/ UploadFile
          \/ ApplyMissingValueHandling
          \/ CleanStep
          \/ UpdateMainDataset]_vars

\* C14: once a file has been loaded, the session holds no dataset of a file
\* loaded before it: data comes from the last file loaded, and so does the
\* working copy of the Data Cleaning page when there is one.
C14_PreviousFileDiscarded ==
    last_loaded # "None" =>
        /\ session_state.data # NoData
        /\ session_state.data.file = last_loaded
        /\ session_state.cleaned_data # Absent =>
               session_state.cleaned_data.file = last_loaded

---------------------------------------------------------------------------
(* The methods of the imputer one by one, checked under SpecImpute on the    *)
(* last entry of the fill specification.                                     *)

\* The dataset the last entry of the fill specification is applied to.
BeforeLastEntry ==
    fill_loop(copy(df0), SubSeq(fill_config, 1, Len(fill_config) - 1)).work

LastEntry == fill_config[Len(fill_config)]

LastEntryIs(type) ==
    /\ pc = "called"
    /\ op = "handle_missing_values"
    /\ fill_config # <<>>
    /\ LastEntry.type = type

\* The most frequent non-null value of a column, the one that occurs first
\* in row order among those that tie; the column has a non-null value.
FirstMostFrequent(vals) ==
    LET present == {i \in 1..Len(vals) : vals[i] # Null}
        count(i) == Cardinality({j \in present : vals[j] = vals[i]})
        best == {i \in present : \A j \in present : count(j) <= count(i)}
    IN  vals[CHOOSE i \in best : \A j \in best : i <= j]

\* C15: a mode entry fills every null of the column with its most frequent
\* non-null value, the first in row order among the values that tie, and
\* changes nothing when the column has no non-null value.
C15_ModeFirstOccurrence ==
    LastEntryIs("mode") =>
        LET before == BeforeLastEntry.data[LastEntry.column]
            after == out.ret.data[LastEntry.column]
        IN  IF \A i \in 1..Len(before) : before[i] = Null THEN after = before
            ELSE after = [i \in 1..Len(before) |->
                             IF before[i] = Null THEN FirstMostFrequent(before)
                             ELSE before[i]]

\* The k-th smallest of a sequence of numbers.
OrderStat(nums, k) ==
    CHOOSE a \in Range(nums) :
        /\ Cardinality({i \in 1..Len(nums) : NumLess(nums[i], a)}) < k
        /\ k <= Cardinality({i \in 1..Len(nums) : NumLeq(nums[i], a)})

\* The mean or the median of a non-empty sequence of numbers.
Statistic(type, nums) ==
    LET n == Len(nums)
    IN  IF type = "mean" THEN NumMul(NumSum(nums), Num(1, n))
        ELSE IF n % 2 = 1 THEN OrderStat(nums, (n + 1) \div 2)
        ELSE NumMul(NumAdd(OrderStat(nums, n \div 2), OrderStat(nums, n \div 2 + 1)),
                    Num(1, 2))

\* C16: a mean or median entry changes nothing and signals no error on a
\* non-numeric column; on a numeric column every null becomes the statistic
\* of the non-null values the column holds at that step and the other cells
\* keep their values (a column without a non-null value stays as it is); the
\* other columns and the rows are untouched.
C16_MeanMedianNumericOnly ==
    (LastEntryIs("mean") \/ LastEntryIs("median")) =>
        LET c == LastEntry.column
            before == BeforeLastEntry
            cells == before.data[c]
            present == Take(cells, [i \in 1..Len(cells) |-> cells[i] # Null])
        IN  /\ out.raised = "none"
            /\ out.error = "None"
            /\ out.reported = <<>>
            /\ IF ~is_numeric_dtype(before.dtypes[c]) \/ present = <<>>
                    THEN out.ret = before
                ELSE out.ret =
                        [before EXCEPT !.data[c] =
                            [i \in 1..Len(cells) |->
                                IF cells[i] = Null THEN Statistic(LastEntry.type, present)
                                ELSE cells[i]]]

\* A median entry on x = [.., 1, 3, null ..] filled the null with 2 and left
\* the 1 and the 3.
C16_Witness ==
    /\ LastEntryIs("median")
    /\ LastEntry.column = "x"
    /\ \E i, j, k \in 1..NRows(out.ret) :
        /\ BeforeLastEntry.data["x"][i] = Whole(1) /\ out.ret.data["x"][i] = Whole(1)
        /\ BeforeLastEntry.data["x"][j] = Whole(3) /\ out.ret.data["x"][j] = Whole(3)
        /\ BeforeLastEntry.data["x"][k] = Null /\ out.ret.data["x"][k] = Whole(2)

\* What each non-empty literal of the model is as a float and as an int:
\* "7" is 7, "nan" is the float NaN and no int, "x" is neither; 0 stands in
\* when there is none.
AsFloat(literal) ==
    CASE literal = <<"7">> -> Whole(7)
      [] literal = <<"n", "a", "n">> -> Null
      [] literal = <<"x">> -> Whole(0)

AsInt(literal) ==
    CASE literal = <<"7">> -> Whole(7)
      [] literal = <<"n", "a", "n">> -> Whole(0)
      [] literal = <<"x">> -> Whole(0)

C18_DropRemovesNullRows ==
    LastEntryIs("drop") =>
        LET c == LastEntry.column
            before == BeforeLastEntry
            kept == {i \in 1..NRows(before) : before.data[c][i] # Null}
            \* the k-th row kept, in row order
            row(k) == CHOOSE i \in kept : Cardinality({j \in kept : j < i}) = k - 1
            n == Cardinality(kept)
        IN  /\ out.raised = "none"
            /\ out.ret.columns = before.columns
            /\ out.ret.dtypes = before.dtypes
            /\ out.ret.index = [k \in 1..n |-> before.index[row(k)]]
            /\ \A d \in Range(before.columns) :
                out.ret.data[d] = [k \in 1..n |-> before.data[d][row(k)]]
            /\ \A k \in 1..n : out.ret.data[c][k] # Null

\* A drop on x removed a row and kept, in order, two rows of which one has a
\* null in s.
C18_Witness ==
    /\ LastEntryIs("drop")
    /\ LastEntry.column = "x"
    /\ NRows(BeforeLastEntry) = 3
    /\ out.ret.index = <<1, 3>>
    /\ out.ret.data["s"][1] = Null
    /\ out.ret.data["s"][2] # Null

---------------------------------------------------------------------------
(* The contains operator of the row filter, checked under SpecFilter *)

\* C19: contains keeps no row whose cell is null, whatever the search value,
\* and keeps a row whose cell is not null exactly when the text of the cell
\* contains the search value.
C19_ContainsSkipsNulls ==
    (/\ Filtered
     /\ Len(filters) = 1
     /\ filters[1].operator = "contains"
     /\ HasColumn(df0, filters[1].column)) =>
        LET cells == df0.data[filters[1].column]
        IN  /\ out.reported = <<>>
            /\ out.ret = SelectRows(df0, [i \in 1..NRows(df0) |->
                             /\ cells[i] # Null
                             /\ str_contains(astype_str(cells[i]), str(filters[1].value))])

---------------------------------------------------------------------------
(* between against the two strict comparisons: the same dataset filtered     *)
(* with [between [lo, hi]] and then with [greater_than lo, less_than hi].    *)

\* The largest bound of a between specification.
MaxBound == 4

\* The bounds lo and hi are drawn from.
BoundValues == {Whole(n) : n \in 0..MaxBound}

FilterBetween ==
    /\ pc = "ready"
    /\ \E lo \in BoundValues, hi \in BoundValues :
        /\ NumLeq(lo, hi)
        /\ filters' = <<Filter("x", "between", List(<<lo, hi>>))>>
        /\ out' = filter_data(df, filters')
        /\ df' = out'.df
    /\ df0' = df
    /\ pc' = "called"
    /\ op' = "filter_data"
    /\ UNCHANGED <<fill_config, calc, columns_to_drop, out2>> /\ UNCHANGED pages

FilterStrict ==
    /\ pc = "called"
    /\ op = "filter_data"
    /\ Len(filters) = 1
    /\ filters[1].operator = "between"
    /\ out2' = filter_data(df0, <<Filter("x", "greater_than", filters[1].value[2][1]),
                                  Filter("x", "less_than", filters[1].value[2][2])>>)
    /\ pc' = "again"
    /\ UNCHANGED <<op, df, df0, fill_config, filters, calc, columns_to_drop, out>>
    /\ UNCHANGED pages

SpecBetween == InitWith(DatasetsXS) /\ [][FilterBetween \/ FilterStrict]_vars

\* C20: on a numeric column with lo <= hi, the rows [between [lo, hi]] keeps
\* include the rows [greater_than lo, less_than hi] keeps, and the rows only
\* between keeps are the rows whose value is lo or hi: the strict result is
\* the between result without those rows.
C20_BetweenVersusStrict ==
    (pc = "again" /\ op = "filter_data") =>
        LET lo == filters[1].value[2][1]
            hi == filters[1].value[2][2]
            between == Range(out.ret.index)
            strict == Range(out2.ret.index)
            boundary == {df0.index[i] : i \in {j \in 1..NRows(df0) :
                                                 df0.data["x"][j] \in {lo, hi}}}
        IN  /\ out.reported = <<>> /\ out2.reported = <<>>
            /\ strict \subseteq between
            /\ between \ strict = boundary
            /\ out2.ret = SelectRows(out.ret, [i \in 1..NRows(out.ret) |->
                               out.ret.data["x"][i] \notin {lo, hi}])

\* With [1, 4] between kept a row of value 1 and a row of value 3, and the
\* strict pair kept the 3 and not the 1.
C20_Witness ==
    /\ pc = "again"
    /\ op = "filter_data"
    /\ filters[1].value = List(<<Whole(1), Whole(4)>>)
    /\ \E i, j \in 1..NRows(out.ret) :
        out.ret.data["x"][i] = Whole(1) /\ out.ret.data["x"][j] = Whole(3)
    /\ NRows(out2.ret) > 0
    /\ \A i \in 1..NRows(out2.ret) : out2.ret.data["x"][i] = Whole(3)

---------------------------------------------------------------------------
(* Division by zero in a formula, checked under SpecCalc *)

\* C21: a division by zero in the formula is no error of
\* add_calculated_column: with a zero in the divisor column ("A1/A2") and
\* with a zero literal as divisor ("A1+1/0") the call returns a dataset with
\* the new column and no error.
C21_DivisionByZeroNoError ==
    (/\ Synthesized
     /\ calc.formula \in {<<"A", "1", "/", "A", "2">>,
                          <<"A", "1", "+", "1", "/", "0">>}) =>
        /\ out.raised = "none"
        /\ out.error = "None"
        /\ HasColumn(out.ret, calc.column_name)
        /\ Len(out.ret.data[calc.column_name]) = NRows(df0)

---------------------------------------------------------------------------
(* The alias map of the Data Cleaning page over ten columns *)

\* column_refs as the page builds it (app.py lines 565-567): the alias of the
\* i-th column is "A" followed by i in decimal, in the order of the columns.
column_refs(available_cols) ==
    [i \in 1..Len(available_cols) |->
        [ref |-> <<"A">> \o DecimalText(i), actual_col |-> available_cols[i]]]

\* Datasets of ten float columns and one row. The first, the second and the
\* tenth column draw their cell from XVals, the others hold 2; the first
\* column is named x or A2.
DatasetsWide ==
    {[columns |-> <<first>> \o <<"y", "a", "b", "d", "e", "f", "h", "i", "l">>,
      dtypes |-> [c \in {first, "y", "a", "b", "d", "e", "f", "h", "i", "l"} |-> "float64"],
      index |-> Labels(1),
      data |-> [c \in {first, "y", "a", "b", "d", "e", "f", "h", "i", "l"} |->
                    <<CASE c = first -> v1 [] c = "y" -> v2 [] c = "l" -> v10
                        [] OTHER -> Whole(2)>>]] :
        first \in {"x", "A2"}, v1 \in XVals, v2 \in XVals, v10 \in XVals}

\* The formulas typed on the page:  A1   A2   A10   A1+A10   A9*A10
AliasFormulas ==
    {<<"A", "1">>, <<"A", "2">>, <<"A", "1", "0">>,
     <<"A", "1", "+", "A", "1", "0">>,
     <<"A", "9", "*", "A", "1", "0">>}

\* The button "Add Calculated Column" (app.py lines 562-571): the alias map
\* is built from the columns of the dataset, then the processor is called.
AddCalculatedColumnOnPage ==
    /\ pc = "ready"
    /\ \E formula \in AliasFormulas :
        /\ calc' = [column_name |-> "c", formula |-> formula,
                    column_references |-> column_refs(df.columns)]
        /\ out' = add_calculated_column(df, "c", formula, column_refs(df.columns))
        /\ df' = out'.df
    /\ df0' = df
    /\ pc' = "called"
    /\ op' = "add_calculated_column"
    /\ UNCHANGED <<fill_config, filters, columns_to_drop, out2>> /\ UNCHANGED pages

SpecAlias == InitWith(DatasetsWide) /\ [][AddCalculatedColumnOnPage]_vars

\* C22: with the alias map of the page over ten columns, a formula that is
\* one alias (A1, A2 or A10) succeeds and the new column holds the cells of
\* the column the map assigns to that alias: A10 reads the tenth column
\* although A1 is a prefix of it, and a first column named A2 is read by A1.
C22_AliasExactPerToken ==
    (/\ Synthesized
     /\ Len(calc.column_references) >= 10) =>
        \A k \in 1..Len(calc.column_references) :
            calc.formula = calc.column_references[k].ref =>
                /\ out.error = "None"
                /\ HasColumn(out.ret, "c")
                /\ out.ret.data["c"] = df0.data[calc.column_references[k].actual_col]

---------------------------------------------------------------------------
(* Visualization.create_chart *)

\* The keys of self.chart_types (visualization.py lines 10-23).
get_available_charts ==
    <<"Line Chart", "Bar Chart", "Scatter Plot", "Histogram", "Box Plot",
      "Pie Chart", "Heatmap", "Area Chart">>

\* A plotly figure over the columns named: plotly raises ValueError for a
\* name that is no column of the data; "" is a column left out (None).
px(chart_type, d, x, y) ==
    IF \A c \in {x, y} \ {""} : HasColumn(d, c)
        THEN [ok |-> TRUE, fig |-> [chart_type |-> chart_type, x |-> x, y |-> y]]
    ELSE [ok |-> FALSE, fig |-> NoFigure]

\* self.chart_types[chart_type](df, config), lines 36-189: each builder
\* raises ValueError when a column it requires is missing from config, the
\* heatmap when the data has fewer than two numeric columns.
chart_builder(chart_type, d, config) ==
    CASE chart_type \in {"Line Chart", "Bar Chart", "Scatter Plot", "Area Chart"} ->
            IF config.x_column = "" \/ config.y_column = ""
                THEN [ok |-> FALSE, fig |-> NoFigure]
            ELSE px(chart_type, d, config.x_column, config.y_column)
      [] chart_type = "Histogram" ->
            IF config.x_column = "" THEN [ok |-> FALSE, fig |-> NoFigure]
            ELSE px(chart_type, d, config.x_column, "")
      [] chart_type = "Box Plot" ->
            IF config.y_column = "" THEN [ok |-> FALSE, fig |-> NoFigure]
            ELSE px(chart_type, d, config.x_column, config.y_column)
      [] chart_type = "Pie Chart" ->
            IF config.values_column = "" \/ config.names_column = ""
                THEN [ok |-> FALSE, fig |-> NoFigure]
            ELSE px(chart_type, d, config.names_column, config.values_column)
      [] chart_type = "Heatmap" ->
            IF Cardinality({i \in 1..Len(d.columns) :
                               is_numeric_dtype(d.dtypes[d.columns[i]])}) < 2
                THEN [ok |-> FALSE, fig |-> NoFigure]
            ELSE [ok |-> TRUE, fig |-> [chart_type |-> chart_type, x |-> "", y |-> ""]]

\* create_chart (lines 25-34): a chart type that is no key of chart_types
\* raises ValueError before the try block; an exception of the builder is
\* reported with st.error and None is returned.
create_chart(chart_type, d, config) ==
    IF chart_type \notin Range(get_available_charts)
        THEN [ret |-> NoFigure, raised |-> "ValueError", reported |-> <<>>]
    ELSE IF chart_builder(chart_type, d, config).ok
        THEN [ret |-> chart_builder(chart_type, d, config).fig, raised |-> "none",
              reported |-> <<>>]
    ELSE [ret |-> NoFigure, raised |-> "none", reported |-> <<"Error creating chart">>]

\* Chart types asked for: the available ones, one that is none of them, and
\* the empty text.
ChartTypes == Range(get_available_charts) \cup {"Radar Chart", ""}

\* Configurations: x (and the names of a pie) is left out, x, or a name z
\* that is no column; y (and the values of a pie) is left out, y or z.
ChartConfigs ==
    {[x_column |-> a, y_column |-> b, values_column |-> b, names_column |-> a] :
        a \in {"", "x", "z"}, b \in {"", "y", "z"}}

\* The datasets charts are drawn from: at most one row, columns x, s or x, y.
DatasetsChart == {d \in DatasetsXS \cup DatasetsXY : NRows(d) <= 1}

CreateChart ==
    /\ pc = "ready"
    /\ \E chart_type \in ChartTypes, config \in ChartConfigs :
        chart' = [chart_type |-> chart_type, config |-> config,
                  ret |-> create_chart(chart_type, df, config).ret,
                  raised |-> create_chart(chart_type, df, config).raised,
                  reported |-> create_chart(chart_type, df, config).reported]
    /\ pc' = "called"
    /\ op' = "create_chart"
    /\ UNCHANGED <<df, df0, fill_config, filters, calc, columns_to_drop, out, out2>>
    /\ UNCHANGED <<page, uploaded_file, session_state, last_loaded>>

SpecChart == InitWith(DatasetsChart) /\ [][CreateChart]_vars

\* C23: create_chart called with a chart type that is not among
\* get_available_charts() raises nothing: it reports a message and returns
\* no figure.
C23_UnsupportedChartReported ==
    (/\ op = "create_chart"
     /\ chart.chart_type \notin Range(get_available_charts)) =>
        /\ chart.raised = "none"
        /\ chart.reported # <<>>
        /\ chart.ret = NoFigure

---------------------------------------------------------------------------
(* A between filter whose value is no 2-element list *)

\* between specifications on x with a scalar, an empty list, a list of one
\* and a list of three.
MalformedBetweenPool ==
    {Filter("x", "between", Whole(1)),
     Filter("x", "between", List(<<>>)),
     Filter("x", "between", List(<<Whole(1)>>)),
     Filter("x", "between", List(<<Whole(1), Whole(2), Whole(3)>>))}

\* Lists of at most two filter specifications, one of them such a between.
FilterListsWithMalformed ==
    {<<m>> : m \in MalformedBetweenPool}
        \cup {<<m, g>> : m \in MalformedBetweenPool, g \in FilterPool}
        \cup {<<f, m>> : f \in FilterPool, m \in MalformedBetweenPool}

FilterMalformed ==
    /\ pc = "ready"
    /\ \E configs \in FilterListsWithMalformed :
        /\ filters' = configs
        /\ out' = filter_data(df, configs)
        /\ df' = out'.df
    /\ df0' = df
    /\ pc' = "called"
    /\ op' = "filter_data"
    /\ UNCHANGED <<fill_config, calc, columns_to_drop, out2>> /\ UNCHANGED pages

SpecMalformed == InitWith(DatasetsXS) /\ [][FilterMalformed]_vars

IsMalformedBetween(config) ==
    /\ config.operator = "between"
    /\ ~(IsList(config.value) /\ Len(config.value[2]) = 2)

\* The entries of a list of filter specifications other than the between
\* entries whose value is no 2-element list.
WithoutMalformed(entries) ==
    Take(entries, [k \in 1..Len(entries) |-> ~IsMalformedBetween(entries[k])])

\* C24: a between specification whose value is not a list of two elements
\* removes no row and raises nothing: the call returns, and reports, what the
\* same call without those specifications does, so the specifications before
\* and after it act as if it were not there.
C24_MalformedBetweenIsNoOp ==
    Filtered =>
        /\ out.raised = "none"
        /\ out.ret = filter_data(df0, WithoutMalformed(filters)).ret
        /\ out.reported = filter_data(df0, WithoutMalformed(filters)).reported
        /\ (\A k \in 1..Len(filters) : IsMalformedBetween(filters[k])) =>
                /\ out.ret = df0
                /\ out.reported = <<>>

\* A between with a list of three came first and x equals 1 after it still
\* selected some rows and removed others.
C24_Witness ==
    /\ Filtered
    /\ filters = <<Filter("x", "between", List(<<Whole(1), Whole(2), Whole(3)>>)),
                   Filter("x", "equals", Whole(1))>>
    /\ 0 < NRows(out.ret) /\ NRows(out.ret) < NRows(df0)

---------------------------------------------------------------------------
(* The cleaned dataset on the Data Upload page, checked under SpecApp *)

\* C25: when "Apply Missing Value Handling" has run on the Data Upload page,
\* st.session_state.data holds the imputed dataset once the script has been
\* executed again by the st.rerun() of the button, also while the file is
\* still in the uploader: the dataset is not the file as loaded.
C25_CleanedDataKept ==
    [][ApplyMissingValueHandling =>
            /\ session_state'.data_cleaned
            /\ session_state'.data.edits > 0]_vars

---------------------------------------------------------------------------
(* The order of the filter specifications, checked under SpecFilter *)

Reversed(seq) == [k \in 1..Len(seq) |-> seq[Len(seq) + 1 - k]]

\* C26: when no specification of the list fails, filter_data returns the same
\* rows in the same order for the list in the other order, and a
\* specification given twice selects what it selects given once.
C26_OrderIndependent ==
    (Filtered /\ out.reported = <<>>) =>
        /\ filter_data(df0, Reversed(filters)).ret = out.ret
        /\ (Len(filters) = 2 /\ filters[1] = filters[2]) =>
                filter_data(df0, <<filters[1]>>).ret = out.ret

\* C26, amended: when no specification fails in the order given nor in the
\* other order, filter_data returns the same rows in the same order for both
\* orders, and a specification given twice selects what it selects given
\* once.
C26_OrderIndependentWhenNoOrderFails ==
    (/\ Filtered
     /\ out.reported = <<>>
     /\ filter_data(df0, Reversed(filters)).reported = <<>>) =>
        /\ filter_data(df0, Reversed(filters)).ret = out.ret
        /\ (Len(filters) = 2 /\ filters[1] = filters[2]) =>
                filter_data(df0, <<filters[1]>>).ret = out.ret

\* x greater than 1 and s equals "a", on different columns, each removed a
\* row the other kept; no specification failed in either order.
C26_Witness ==
    /\ Filtered
    /\ filters = <<Filter("x", "greater_than", Whole(1)),
                   Filter("s", "equals", Str(<<"a">>))>>
    /\ out.reported = <<>>
    /\ filter_data(df0, Reversed(filters)).reported = <<>>
    /\ NRows(df0) = MaxRows
    /\ NRows(out.ret) = 1
    /\ NRows(filter_data(df0, <<filters[1]>>).ret) = 2
    /\ NRows(filter_data(df0, <<filters[2]>>).ret) = 2

---------------------------------------------------------------------------
(* What handle_missing_values leaves alone, checked under SpecImpute *)

\* The position in the input of the row that is row j of the result.
InputRow(j) == CHOOSE p \in 1..NRows(df0) : df0.index[p] = out.ret.index[j]

Named(config, column) == \E k \in 1..Len(config) : config[k].column = column

\* C27: handle_missing_values returns the columns of the input, in their
\* order; its rows are rows of the input in their order; a cell that was not
\* null in the input is unchanged, and so is every cell of a column no entry
\* names; without a drop entry the rows are the input's.
C27_ImputerFrame ==
    Imputed =>
        /\ out.ret.columns = df0.columns
        /\ \A j \in 1..NRows(out.ret) : \E p \in 1..NRows(df0) : df0.index[p] = out.ret.index[j]
        /\ \A j, k \in 1..NRows(out.ret) : j < k => InputRow(j) < InputRow(k)
        /\ \A j \in 1..NRows(out.ret) : \A i \in 1..Len(df0.columns) :
            LET c == df0.columns[i]
            IN  /\ ~IsNull(df0.data[c][InputRow(j)]) =>
                        out.ret.data[c][j] = df0.data[c][InputRow(j)]
                /\ ~Named(fill_config, c) =>
                        out.ret.data[c][j] = df0.data[c][InputRow(j)]
        /\ ~HasDrop(fill_config) => out.ret.index = df0.index

\* A custom entry filled the null of x with 7 and left its 3 alone, a drop
\* entry on s removed the first row, and the null of x in it with it.
C27_Witness ==
    /\ Imputed
    /\ fill_config = <<[column |-> "x", type |-> "custom", value |-> <<"7">>],
                       [column |-> "s", type |-> "drop", value |-> <<>>]>>
    /\ df0.data["x"] = <<Null, Whole(3), Null>>
    /\ df0.data["s"] = <<Null, Str(<<"a">>), Str(<<"a">>)>>
    /\ out.ret.index = <<2, 3>>
    /\ out.ret.data["x"] = <<Whole(3), Whole(7)>>

---------------------------------------------------------------------------
(* What add_calculated_column leaves alone, checked under SpecCalc *)

\* C28: when add_calculated_column succeeds, the dataset it returns has
\* every column of the input with the input's values, a column named
\* column_name and the input's rows; also when column_name is the name of a
\* column of the input, whose values are then not replaced.
C28_SynthesizerFrame ==
    (Synthesized /\ out.raised = "none" /\ out.error = "None") =>
        /\ HasColumn(out.ret, calc.column_name)
        /\ out.ret.index = df0.index
        /\ \A i \in 1..Len(df0.columns) :
            /\ HasColumn(out.ret, df0.columns[i])
            /\ out.ret.data[df0.columns[i]] = df0.data[df0.columns[i]]

---------------------------------------------------------------------------
(* DataChatbot: the chat history of the AI Data Chat page.  A message is its *)
(* role and its content; the keys chat_history and dashboard_config, which   *)
(* the pages create empty when the session lacks them (chatbot.py lines      *)
(* 32-33, dashboard_builder.py lines 13-14), are held empty from the start.  *)

\* What the hosted completion does with a request: it answers with JSON, it
\* answers with empty content, or the call or json.loads raises.
Completions == {"answers", "empty", "raises"}

\* _generate_response (lines 116-200): the response, or None for empty
\* content (lines 159-160) and for any exception (lines 198-200).
_generate_response(completion) ==
    IF completion = "answers" THEN "text" ELSE "None"

\* The queries of the quick action buttons (lines 85, 89, 93).
QuickQueries ==
    {"Give me a summary of this dataset",
     "Show me missing values in the data",
     "Show correlations between numeric columns"}

Message(role, content) == [role |-> role, content |-> content]

\* st.chat_input (lines 46-76): the prompt is appended as a user message,
\* then the response, or the apology when there is none, as an assistant
\* message.
chat_input(chat_history, prompt, response) ==
    Append(Append(chat_history, Message("user", prompt)),
           Message("assistant", IF response # "None" THEN response ELSE "error_msg"))

\* _add_quick_query (lines 101-114): the query is appended as a user
\* message, and the response as an assistant message when there is one.
_add_quick_query(chat_history, query, response) ==
    IF response # "None"
        THEN Append(Append(chat_history, Message("user", query)),
                    Message("assistant", response))
    ELSE Append(chat_history, Message("user", query))

\* The page calls render_chat_interface when the session has data (app.py
\* lines 764-770).
ChatShown == page = "AI Data Chat" /\ session_state.data # NoData

ChatInput ==
    /\ ChatShown
    /\ Len(session_state.chat_history) + 2 <= MaxChat
    /\ \E completion \in Completions :
        session_state' = [session_state EXCEPT !.chat_history =
                             chat_input(@, "prompt", _generate_response(completion))]
    /\ UNCHANGED <<page, uploaded_file, last_loaded, chart>>
    /\ UNCHANGED processor

QuickAction ==
    /\ ChatShown
    /\ Len(session_state.chat_history) + 2 <= MaxChat
    /\ \E query \in QuickQueries, completion \in Completions :
        session_state' = [session_state EXCEPT !.chat_history =
                             _add_quick_query(@, query, _generate_response(completion))]
    /\ UNCHANGED <<page, uploaded_file, last_loaded, chart>>
    /\ UNCHANGED processor

\* "Clear Chat" (lines 96-99).
ClearChat ==
    /\ ChatShown
    /\ session_state' = [session_state EXCEPT !.chat_history = <<>>]
    /\ UNCHANGED <<page, uploaded_file, last_loaded, chart>>
    /\ UNCHANGED processor

SpecChat ==
    /\ InitWith({NoDf})
    /\ [][\/ SelectPage
          \/ UploadFile
          \/ ChatInput
          \/ QuickAction
          \/ ClearChat]_vars

\* C29: the chat history alternates user and assistant messages and starts
\* with a user message: every user message is followed at once by one
\* assistant message, also when no response could be generated.
C29_ChatAlternates ==
    LET h == session_state.chat_history
    IN  /\ Len(h) % 2 = 0
        /\ \A k \in 1..Len(h) :
            h[k].role = IF k % 2 = 1 THEN "user" ELSE "assistant"

---------------------------------------------------------------------------
(* DashboardBuilder: the components of the Dashboard Builder page *)

\* _add_new_component (lines 50-60): the id of the new component is the
\* number of components the dashboard has, its title that number plus one.
_add_new_component(dashboard_config) ==
    Append(dashboard_config,
           [id |-> Len(dashboard_config), type |-> "chart", chart_type |-> "Bar Chart",
            title |-> Len(dashboard_config) + 1])

\* dashboard_config.pop(index) (line 75), index counted from 1 here.
pop(dashboard_config, index) ==
    [k \in 1..Len(dashboard_config) - 1 |->
        IF k < index THEN dashboard_config[k] ELSE dashboard_config[k + 1]]

\* The page calls render_dashboard_builder when the session has data (app.py
\* lines 755-761).
DashboardShown == page = "Dashboard Builder" /\ session_state.data # NoData

\* "Add Component" (lines 23-24).
AddComponent ==
    /\ DashboardShown
    /\ Len(session_state.dashboard_config) < MaxComponents
    /\ session_state' = [session_state EXCEPT !.dashboard_config = _add_new_component(@)]
    /\ UNCHANGED <<page, uploaded_file, last_loaded, chart>>
    /\ UNCHANGED processor

\* The delete button of the component at index (lines 74-76).
DeleteComponent ==
    /\ DashboardShown
    /\ \E index \in 1..Len(session_state.dashboard_config) :
        session_state' = [session_state EXCEPT !.dashboard_config = pop(@, index)]
    /\ UNCHANGED <<page, uploaded_file, last_loaded, chart>>
    /\ UNCHANGED processor

\* "Clear Dashboard" (lines 42-44), which acts on a dashboard that has
\* components.
ClearDashboard ==
    /\ DashboardShown
    /\ session_state.dashboard_config # <<>>
    /\ session_state' = [session_state EXCEPT !.dashboard_config = <<>>]
    /\ UNCHANGED <<page, uploaded_file, last_loaded, chart>>
    /\ UNCHANGED processor

SpecDashboard ==
    /\ InitWith({NoDf})
    /\ [][\/ SelectPage
          \/ UploadFile
          \/ AddComponent
          \/ DeleteComponent
          \/ ClearDashboard]_vars

\* C30: the components of the dashboard have pairwise distinct ids.
C30_DistinctComponentIds ==
    LET components == session_state.dashboard_config
    IN  \A j, k \in 1..Len(components) :
            j # k => components[j].id # components[k].id

===========================================================================
